---- MODULE Spec2Model ----
(***************************************************************************)
(* Scraper service: the Celery tasks of tasks.py (scrape_task,             *)
(* enrich_websites_task), the synchronous extractor wrappers of            *)
(* scrapers/*.py and the ScraperEngine session of scraper_engine.py.       *)
(*                                                                         *)
(* Spec        one worker slot executing one queued task to completion.    *)
(* SpecEngine  one ScraperEngine driven by an arbitrary client through its *)
(*             public methods initialize / create_context / cleanup.       *)
(* SpecEnrichBatches  enrich_websites_task over enough places for a second *)
(*             batch, with a service and a sink that answer in one way.    *)
(* SpecNavigate  one call of ScraperEngine.navigate_with_retry.            *)
(* SpecRoute   one context and the requests issued from it.                *)
(* SpecDiscover  the discovery of one search term (Amazon, Google Maps).   *)
(* SpecTerm    one search term of scrape(): discovery, batches, filters.   *)
(* SpecExtract  one detail extraction (_extract_product_details,           *)
(*             _extract_place_details) step by step.                       *)
(* SpecEndToEnd  one Amazon keyword, eight products shown, max_results 6.   *)
(* SpecSubmit  one job posted to the /scrape endpoint of server.py and run *)
(*             by the worker.                                              *)
(***************************************************************************)
EXTENDS Integers, Sequences, FiniteSets, TLC

None == "None"

(* ----------------------------- bounds ---------------------------------- *)
\* number of places handed to enrich_websites_task
MaxPlaces == 2
\* number of ScraperEngine method calls made by the client of SpecEngine
MaxApiCalls == 3
\* largest max_retries passed to navigate_with_retry
MaxRetries == 3
\* number of distinct target identifiers a site shows for a search term
MaxIds == 4
\* number of identifiers, repeated ones included, the discovery of a term reads
MaxSeen == 4
\* places with a website of a request whose enrichment takes several batches
MaxBatchPlaces == 6

(* ------------------------ program constants ---------------------------- *)
\* tasks.py:181  batch_size = 5
EnrichBatchSize == 5

\* celery_app.py:22  task_track_started=True
task_track_started == TRUE

\* amazon.py:222  max_pages = 20
max_pages == 20
\* amazon.py:259  page_asins_found < 5
AltSelectorBelow == 5
\* google_maps.py:127  max_attempts = 3
max_attempts == 3
\* amazon.py:166, google_maps.py:153  batch_size = 3
batch_size == 3
\* max_results when the configuration has none: amazon.py 128, google_maps.py 107
AmazonDefaultMaxResults == 50
MapsDefaultMaxResults == 100

VARIABLES
    task,          \* what runs: "scrape" | "enrich" (Spec), "api" (SpecEngine),
                   \* "navigate" (SpecNavigate), "route" (SpecRoute),
                   \* "discover" (SpecDiscover), "term" (SpecTerm)
    actor_id,      \* scrape_task argument
    input_data,    \* scrape_task argument (abstracted input configuration)
    submitted,     \* the run_id of the ScrapeRequest posted to /scrape, None when
                   \* the task was not queued through the submission interface
    task_id,       \* the task id the submission gave to the queue, None before
    run_id,        \* scrape_task / enrich_websites_task argument, None if absent
    pc,            \* position of the running task
    taskState,     \* queue-visible Celery state of the task
    exc,           \* the exception in flight, NoExc when there is none
    result,        \* value returned by scraper_func(input_data)
    payload,       \* value returned by the task to the queue
    events,        \* emits made so far (calls of _send_status_update / _send_enrichment_update)
    posts,         \* HTTP POST attempts made to the status sink
    eng,           \* the ScraperEngine of the task and the processes it started
    ctx,           \* the context held by the running scrape(), 0 if none
    hist,          \* history of the run: what was invoked and how scrape() ended
    places,        \* enrich_websites_task: the place records of places_with_websites
    slots,         \* enrich_websites_task: per place, position and outcome of _enrich_single_place
    batchStart,    \* enrich_websites_task: loop index i of _enrich_places_parallel
    enriched_count,\* enrich_websites_task: the counter of _enrich_places_parallel
    calls,         \* SpecEngine: number of method calls made by the client
    max_retries,   \* navigate_with_retry argument
    attempt,       \* navigate_with_retry: the loop variable
    navLog,        \* navigate_with_retry: per attempt, what page.goto did and the sleep that followed
    navRet,        \* navigate_with_retry: the value returned ("True" | "False"), None while it runs
    flags,         \* create_context arguments ultra_fast, block_media, block_fonts of the context
    routed,        \* whether context.route installed _handle_route on the context
    request,       \* the last request issued from the context, NoRequest before the first
    decision,      \* what happened to that request: "abort" | "continue"
    scraper,       \* which scrape() runs the search term: "amazon" | "maps"
    feed,          \* what the site shows for the term: per search, the identifiers in page order
    max_results,   \* scrape() configuration
    filters,       \* scrape() configuration: min_rating, max_price
    discovered,    \* product_asins / places_to_process of the term, <<>> before discovery
    batchI,        \* the loop index i of the batch loop
    ext,           \* per discovered target, position and outcome of its detail extraction
    launches,      \* the batches issued so far, each the sequence of its targets
    all_results,   \* all_products / all_results
    filterLog,     \* the records the job-level filters were evaluated on
    env,           \* enrich_websites_task: what the enrichment collaborator and the status
                   \* sink can answer during the run
    term,          \* the search term (Amazon: keyword) scrape() is working on
    progress,      \* the reports scrape() has issued for the progress callback
    loadLog,       \* SpecExtract: the page.goto calls of one detail extraction
    visits,        \* discovery: per result page visited (Amazon) or search attempt
                   \* (Maps), the new targets it gave and the targets held after it
    pages          \* the Pages open in the context of scrape(): SearchPage for
                   \* the page of a search, the position of its target for the
                   \* page of a detail extraction

navVars == <<max_retries, attempt, navLog, navRet>>
routeVars == <<flags, routed, request, decision>>
termVars == <<scraper, feed, max_results, filters, discovered, batchI, ext, launches,
              all_results, filterLog, term, progress, loadLog, visits, pages>>
browseVars == <<navVars, routeVars, termVars>>
termConfig == <<scraper, feed, max_results, filters, term>>

vars == <<task, actor_id, input_data, submitted, task_id, run_id, pc, taskState, exc, result, payload,
          events, posts, eng, ctx, hist, places, slots, batchStart, enriched_count, calls,
          browseVars, env>>

scrapeVars == <<actor_id, input_data, submitted, task_id>>
enrichVars == <<places, slots, batchStart, enriched_count, env>>

(* ------------------------------ values --------------------------------- *)
NoExc == [kind |-> None, msg |-> <<>>]
Exc(kind, msg) == [kind |-> kind, msg |-> msg]

NoResult == [kind |-> None, error |-> <<>>]
NoPayload == [status |-> None, data |-> NoResult, error |-> <<>>, traceback |-> FALSE]

\* outcomes of one POST to the sink: answered 200, answered with another status,
\* or an exception (no answer within the ClientTimeout, connection refused)
DeliveryOutcomes == {"ok200", "non200", "timeout"}

(* --------------------------- ScraperEngine ----------------------------- *)
\* ScraperEngine.__init__: no engine, no browser, empty registry.  The counters
\* and sets beside the three fields are the processes and contexts this Session
\* has started and closed; closeCalls lists the contexts close() was invoked
\* on, one entry per invocation.
NewEngine ==
    [playwright |-> 0, browser |-> 0, contexts |-> <<>>,
     enginesStarted |-> 0, enginesStopped |-> {},
     browsersLaunched |-> 0, browsersClosed |-> {},
     ctxCreated |-> 0, ctxBrowser |-> <<>>, ctxClosed |-> {},
     openAtBrowserClose |-> {},
     cleanupLog |-> <<>>,
     closeCalls |-> <<>>]

Ret(e, raised) == [e |-> e, raised |-> raised]
RetCtx(e, raised, c) == [e |-> e, raised |-> raised, ctx |-> c]

\* the contexts of browser b that nobody has closed yet
OpenContextsOf(e, b) ==
    {c \in 1..e.ctxCreated : e.ctxBrowser[c] = b /\ c \notin e.ctxClosed}

\* a context is open until it is closed or its browser is closed
IsOpenCtx(e, c) ==
    c \notin e.ctxClosed /\ e.ctxBrowser[c] \notin e.browsersClosed

InitializeFailures == {"none", "start", "launch"}

\* ScraperEngine.initialize: start the automation engine, then launch the
\* browser.  No guard: every call starts a further engine and browser.
\* fail = "start": async_playwright().start() raises;
\* fail = "launch": chromium.launch() raises after self.playwright was assigned.
initialize(e, fail) ==
    IF fail = "start" THEN Ret(e, TRUE)
    ELSE LET p  == e.enginesStarted + 1
             e1 == [e EXCEPT !.enginesStarted = p, !.playwright = p]
         IN IF fail = "launch" THEN Ret(e1, TRUE)
            ELSE LET b == e1.browsersLaunched + 1
                 IN Ret([e1 EXCEPT !.browsersLaunched = b, !.browser = b], FALSE)

CreateFailures == {"none", "start", "launch", "proxy", "new_context", "route", "init_script"}

\* ScraperEngine.create_context(use_proxy, ultra_fast, block_media, block_fonts);
\* blocking = ultra_fast or block_media or block_fonts.  fail names the await
\* that raises; a closed browser makes new_context raise.
create_context(e, use_proxy, blocking, fail) ==
    LET r0 == IF e.browser = 0
              THEN initialize(e, IF fail \in {"start", "launch"} THEN fail ELSE "none")
              ELSE Ret(e, FALSE)
        e0 == r0.e
    IN IF r0.raised THEN RetCtx(e0, TRUE, 0)
       ELSE IF use_proxy /\ fail = "proxy" THEN RetCtx(e0, TRUE, 0)
       ELSE IF fail = "new_context" \/ e0.browser \in e0.browsersClosed
            THEN RetCtx(e0, TRUE, 0)
       ELSE LET c  == e0.ctxCreated + 1
                e1 == [e0 EXCEPT !.ctxCreated = c,
                                 !.ctxBrowser = Append(@, e0.browser)]
            IN IF blocking /\ fail = "route" THEN RetCtx(e1, TRUE, 0)
               ELSE IF fail = "init_script" THEN RetCtx(e1, TRUE, 0)
               ELSE RetCtx([e1 EXCEPT !.contexts = Append(@, c)], FALSE, c)

\* the close calls cleanup makes on the first k registered contexts
CloseContexts(e, k) ==
    [e EXCEPT !.ctxClosed = @ \cup {e.contexts[j] : j \in 1..k},
              !.cleanupLog = @ \o [j \in 1..k |-> <<"context", e.contexts[j]>>],
              !.closeCalls = @ \o [j \in 1..k |-> e.contexts[j]]]

CloseBrowser(e) ==
    [e EXCEPT !.openAtBrowserClose = @ \cup {c \in OpenContextsOf(e, e.browser) :
                                                e.browser \notin e.browsersClosed},
              !.browsersClosed = @ \cup {e.browser},
              !.cleanupLog = Append(@, <<"browser", e.browser>>)]

StopEngine(e) ==
    [e EXCEPT !.enginesStopped = @ \cup {e.playwright},
              !.cleanupLog = Append(@, <<"engine", e.playwright>>)]

\* the mis-ordered teardown: browser first, then the registered contexts
cleanup_browser_first(e, failAt) ==
    LET n  == Len(e.contexts)
        e1 == IF e.browser # 0 THEN CloseBrowser(e) ELSE e
        e2 == CloseContexts(e1, n)
    IN IF failAt # 0 THEN Ret(e, TRUE)
       ELSE Ret(IF e.playwright # 0 THEN StopEngine(e2) ELSE e2, FALSE)

\* ScraperEngine.cleanup: close every registered context in registry order,
\* then the browser, then stop the engine.  failAt = 0: nothing raises;
\* failAt = k in 1..n: the k-th context.close() raises; n+1: browser.close()
\* raises; n+2: playwright.stop() raises.  Nothing is reset afterwards.
cleanup(e, failAt) ==
    LET n  == Len(e.contexts)
        k  == IF failAt \in 1..n THEN failAt - 1 ELSE n
        e1 == CloseContexts(e, k)
    IN IF failAt \in 1..n THEN Ret(e1, TRUE)
       ELSE IF e.browser # 0 /\ failAt = n + 1 THEN Ret(e1, TRUE)
       ELSE LET e2 == IF e.browser # 0 THEN CloseBrowser(e1) ELSE e1
            IN IF e.playwright # 0 /\ failAt = n + 2 THEN Ret(e2, TRUE)
               ELSE Ret(IF e.playwright # 0 THEN StopEngine(e2) ELSE e2, FALSE)

(* ------------------------ status propagation --------------------------- *)
\* what one emit did: the StatusEvent it built, the POST attempts it made to
\* the sink (one outcome per attempt) and whether it raised to its caller
Emitted(ev, attempts, raised) == [event |-> ev, attempts |-> attempts, raised |-> raised]

StatusEvent(run, path, status, res, error) ==
    [run |-> run, path |-> path, status |-> status, result |-> res, error |-> error]

\* an emit without the except clause: a failed delivery raises to the caller
_send_status_update_raising(run, status, res, error, outcome) ==
    Emitted(StatusEvent(run, "status", status, res, error), <<outcome>>,
            outcome = "timeout")

\* an emit that posts again when the first delivery did not answer 200
_send_status_update_retrying(run, status, res, error, outcome) ==
    Emitted(StatusEvent(run, "status", status, res, error),
            IF outcome = "ok200" THEN <<outcome>> ELSE <<outcome, outcome>>, FALSE)

\* _send_status_update(run_id, status, result, error): build the payload (result
\* and error only when truthy: NoResult and <<>> stand for the absent key), POST
\* it once with a 10 s timeout; a non-200 answer is logged, every Exception is
\* caught and logged.
_send_status_update(run, status, res, error, outcome) ==
    Emitted(StatusEvent(run, "status", status, res, error), <<outcome>>, FALSE)

\* the effect of an emit on the record of emits and of POST attempts
Record(em) ==
    /\ events' = Append(events, em.event)
    /\ posts' = posts \o [i \in 1..Len(em.attempts) |->
                            [emit |-> Len(events) + 1, outcome |-> em.attempts[i]]]

DeliveryError == Exc("ClientError", <<"status sink unreachable">>)

(* --------------------------- scrape_task ------------------------------- *)
\* the scrapers under src/
InSrc == {"scrape_google_maps", "scrape_google_business", "scrape_amazon", "scrape_apollo"}

\* scraper_map of scrape_task
scraper_map ==
    [a \in {"google-maps", "google-business", "amazon", "instagram", "twitter",
            "facebook", "linkedin", "tiktok", "website", "apollo"} |->
        CASE a = "google-maps"     -> "scrape_google_maps"
          [] a = "google-business" -> "scrape_google_business"
          [] a = "amazon"          -> "scrape_amazon"
          [] a = "instagram"       -> "scrape_instagram"
          [] a = "twitter"         -> "scrape_twitter"
          [] a = "facebook"        -> "scrape_facebook"
          [] a = "linkedin"        -> "scrape_linkedin"
          [] a = "tiktok"          -> "scrape_tiktok"
          [] a = "website"         -> "scrape_website"
          [] a = "apollo"          -> "scrape_apollo"]

\* a lookup that falls back to a default scraper for an unmapped actor
scraper_func_defaulting(a) ==
    IF a \in DOMAIN scraper_map THEN scraper_map[a] ELSE "scrape_website"

\* scraper_map.get(actor_id)
scraper_func(a) ==
    IF a \in DOMAIN scraper_map THEN scraper_map[a] ELSE None

ActorIds == DOMAIN scraper_map \cup {"nonexistent-actor"}

\* input configurations: the search-terms field (search_keywords / search_terms)
\* is absent or empty ("missing"), a truthy value that cannot be iterated
\* ("nonlist") or a non-empty list of strings ("ok"); the configuration may
\* carry a run_id key
Inputs == [terms : {"missing", "nonlist", "ok"}, run_id : {None, "r2"}]

\* lines 25-26: the run id of the input is used when none was passed
ResolvedRunId(rid, input) ==
    IF rid = None /\ input.run_id # None THEN input.run_id ELSE rid

\* a task that reports a state of its own instead of the state it was given
update_state_custom(state) == "PROGRESS"

\* self.update_state(state=..., meta=...): the result backend stores the state
update_state(state) == state

\* the Celery worker takes the task from the queue; with task_track_started
\* it reports STARTED before it calls the task body
WorkerStart ==
    /\ pc = "queued"
    /\ taskState' = IF task_track_started THEN "STARTED" ELSE taskState
    /\ pc' = "entry"
    /\ UNCHANGED <<task, scrapeVars, browseVars, run_id, exc, result, payload, events, posts,
                   eng, ctx, hist, enrichVars, calls>>

\* scrape_task lines 25-30: resolve the run id, then update_state(STARTED)
ScrapeEntry ==
    /\ task = "scrape" /\ pc = "entry"
    /\ run_id' = ResolvedRunId(run_id, input_data)
    /\ taskState' = update_state("STARTED")
    /\ pc' = "send_started"
    /\ UNCHANGED <<task, scrapeVars, browseVars, exc, result, payload, events, posts,
                   eng, ctx, hist, enrichVars, calls>>

\* scrape_task lines 33-34
SendStarted ==
    /\ task = "scrape" /\ pc = "send_started"
    /\ IF run_id # None
       THEN \E o \in DeliveryOutcomes :
              LET em == _send_status_update(run_id, "started", NoResult, <<>>, o)
              IN /\ Record(em)
                 /\ pc' = IF em.raised THEN "except" ELSE "route"
                 /\ exc' = IF em.raised THEN DeliveryError ELSE exc
       ELSE /\ pc' = "route"
            /\ UNCHANGED <<events, posts, exc>>
    /\ UNCHANGED <<task, scrapeVars, browseVars, run_id, taskState, result, payload,
                   eng, ctx, hist, enrichVars, calls>>

\* the lookup done outside the try block: the ValueError of an unmapped actor
\* leaves the task
Route_outside_try ==
    /\ task = "scrape" /\ pc = "route"
    /\ IF scraper_func(actor_id) = None
       THEN /\ exc' = Exc("ValueError", <<"Unknown actor_id: ", actor_id>>)
            /\ pc' = "crashed"
            /\ UNCHANGED <<hist, eng>>
       ELSE /\ pc' = "call"
            /\ hist' = [hist EXCEPT !.extractor = scraper_func(actor_id)]
            /\ eng' = NewEngine
            /\ exc' = exc
    /\ UNCHANGED <<task, scrapeVars, browseVars, run_id, taskState, result, payload, events, posts,
                   ctx, enrichVars, calls>>

\* scrape_task lines 37-53 and the head of the wrapper: look the actor up,
\* raise ValueError for an unmapped one, else call scraper_func(input_data),
\* which constructs a ProxyManager and a ScraperEngine
Route ==
    /\ task = "scrape" /\ pc = "route"
    /\ IF scraper_func(actor_id) = None
       THEN /\ exc' = Exc("ValueError", <<"Unknown actor_id: ", actor_id>>)
            /\ pc' = "except"
            /\ UNCHANGED <<hist, eng>>
       ELSE /\ pc' = "call"
            /\ hist' = [hist EXCEPT !.extractor = scraper_func(actor_id)]
            /\ eng' = NewEngine
            /\ exc' = exc
    /\ UNCHANGED <<task, scrapeVars, browseVars, run_id, taskState, result, payload, events, posts,
                   ctx, enrichVars, calls>>

(* ---------------------- extractors and wrappers ------------------------ *)
\* create_context arguments of each scrape(): Amazon asks for no proxy and no
\* blocking flag; Maps, Business and Apollo ask for a proxy and block_fonts
UsesProxy(f) == f # "scrape_amazon"
Blocking(f) == f # "scrape_amazon"

\* the search terms scrape() iterates: GoogleBusinessScraper builds its own
\* one-element list from business_name and location
TermsOf(f, input) == IF f = "scrape_google_business" THEN "ok" ELSE input.terms

\* a scraper of the registry whose module is not part of the sources: by the
\* plugin contract scrape(config) returns a list of records or fails
ScrapeOther ==
    /\ task = "scrape" /\ pc = "call"
    /\ hist.extractor \notin InSrc
    /\ \E returns \in BOOLEAN :
          IF returns
          THEN /\ result' = [kind |-> "list", error |-> <<>>]
               /\ hist' = [hist EXCEPT !.scrape = "returned"]
               /\ pc' = "send_success"
               /\ exc' = exc
          ELSE /\ exc' = Exc("Exception", <<"scraper failed">>)
               /\ hist' = [hist EXCEPT !.scrape = "raised"]
               /\ pc' = "except"
               /\ result' = result
    /\ UNCHANGED <<task, scrapeVars, browseVars, run_id, taskState, payload, events, posts,
                   eng, ctx, enrichVars, calls>>

\* scrape() up to the creation of the context: AmazonProductScraper raises
\* ValueError when search_keywords is falsy; GoogleMapsScraperV3,
\* GoogleBusinessScraper and ApolloScraper validate nothing
ScrapeConfig ==
    /\ task = "scrape" /\ pc = "call"
    /\ hist.extractor \in InSrc
    /\ IF hist.extractor = "scrape_amazon" /\ input_data.terms = "missing"
       THEN /\ exc' = Exc("ValueError", <<"search_keywords is required">>)
            /\ hist' = [hist EXCEPT !.scrape = "raised"]
            /\ pc' = "wrapper_except"
       ELSE /\ pc' = "create_context"
            /\ UNCHANGED <<exc, hist>>
    /\ UNCHANGED <<task, scrapeVars, browseVars, run_id, taskState, result, payload, events, posts,
                   eng, ctx, enrichVars, calls>>

\* context = await self.engine.create_context(...), before the try block
ScrapeCreateContext ==
    /\ task = "scrape" /\ pc = "create_context"
    /\ \E fail \in CreateFailures :
          LET r == create_context(eng, UsesProxy(hist.extractor),
                                  Blocking(hist.extractor), fail)
          IN /\ eng' = r.e
             /\ IF r.raised
                THEN /\ exc' = Exc("Error", <<"create_context failed">>)
                     /\ hist' = [hist EXCEPT !.scrape = "raised"]
                     /\ pc' = "wrapper_except"
                     /\ ctx' = ctx
                ELSE /\ ctx' = r.ctx
                     /\ pc' = "body"
                     /\ UNCHANGED <<exc, hist>>
    /\ UNCHANGED <<task, scrapeVars, browseVars, run_id, taskState, result, payload, events, posts,
                   enrichVars, calls>>

\* the try block of scrape(): the loop over the search terms.  Iterating a
\* value that is no list raises TypeError; an empty list is no iteration;
\* ApolloScraper has no method _search_google_for_apollo (it is defined inside
\* scrape_apollo, after its last statement), so its first iteration raises
\* AttributeError; in the other scrapers discovery and the batches return, or
\* context.new_page() of the discovery raises
ScrapeBody ==
    /\ task = "scrape" /\ pc = "body"
    /\ LET terms == TermsOf(hist.extractor, input_data)
       IN \E pageFails \in BOOLEAN :
            exc' = CASE terms = "nonlist" -> Exc("TypeError", <<"object is not iterable">>)
                     [] terms = "missing" -> NoExc
                     [] terms = "ok" /\ hist.extractor = "scrape_apollo" ->
                            Exc("AttributeError", <<"_search_google_for_apollo">>)
                     [] OTHER -> IF pageFails THEN Exc("Error", <<"new_page failed">>)
                                 ELSE NoExc
    /\ pc' = "finally"
    /\ UNCHANGED <<task, scrapeVars, browseVars, run_id, taskState, result, payload, events, posts,
                   eng, ctx, hist, enrichVars, calls>>

\* finally: await context.close(), which may itself raise; then scrape()
\* returns its list or the exception leaves it
ScrapeFinally ==
    /\ task = "scrape" /\ pc = "finally"
    /\ \E closes \in BOOLEAN :
          /\ eng' = IF closes
                    THEN [eng EXCEPT !.ctxClosed = @ \cup {ctx}, !.closeCalls = Append(@, ctx)]
                    ELSE [eng EXCEPT !.closeCalls = Append(@, ctx)]
          /\ exc' = IF closes THEN exc ELSE Exc("Error", <<"context.close failed">>)
    /\ hist' = [hist EXCEPT !.scrape = IF exc' = NoExc THEN "returned" ELSE "raised"]
    /\ pc' = IF exc' = NoExc THEN "cleanup" ELSE "wrapper_except"
    /\ UNCHANGED <<task, scrapeVars, browseVars, run_id, taskState, result, payload, events, posts,
                   ctx, enrichVars, calls>>

\* the wrapper after scrape() returned: loop.run_until_complete(engine.cleanup())
\* and return results
WrapperCleanup ==
    /\ task = "scrape" /\ pc = "cleanup"
    /\ \E failAt \in 0..(Len(eng.contexts) + 2) :
          LET r == cleanup(eng, failAt)
          IN /\ eng' = r.e
             /\ IF r.raised
                THEN /\ exc' = Exc("Error", <<"cleanup failed">>)
                     /\ pc' = "wrapper_except"
                     /\ result' = result
                ELSE /\ result' = [kind |-> "list", error |-> <<>>]
                     /\ pc' = "send_success"
                     /\ exc' = exc
    /\ UNCHANGED <<task, scrapeVars, browseVars, run_id, taskState, payload, events, posts,
                   ctx, hist, enrichVars, calls>>

\* the except clause of the wrapper: scrape_amazon, scrape_google_maps and
\* scrape_google_business log and return {'error': str(e)}; scrape_apollo logs
\* and raises e
WrapperExcept ==
    /\ task = "scrape" /\ pc = "wrapper_except"
    /\ IF hist.extractor = "scrape_apollo"
       THEN /\ pc' = "except"
            /\ UNCHANGED <<exc, result>>
       ELSE /\ result' = [kind |-> "error_dict", error |-> exc.msg]
            /\ exc' = NoExc
            /\ pc' = "send_success"
    /\ UNCHANGED <<task, scrapeVars, browseVars, run_id, taskState, payload, events, posts,
                   eng, ctx, hist, enrichVars, calls>>

\* scrape_task lines 58-65: emit 'success' with the result and return the
\* success payload; Celery then stores the return value under state SUCCESS
SendSuccess ==
    /\ task = "scrape" /\ pc = "send_success"
    /\ LET returns == /\ payload' = [status |-> "success", data |-> result,
                                     error |-> <<>>, traceback |-> FALSE]
                      /\ pc' = "done"
                      /\ taskState' = "SUCCESS"
                      /\ exc' = exc
       IN IF run_id # None
          THEN \E o \in DeliveryOutcomes :
                 LET em == _send_status_update(run_id, "success", result, <<>>, o)
                 IN /\ Record(em)
                    /\ IF em.raised
                       THEN /\ pc' = "except"
                            /\ exc' = DeliveryError
                            /\ UNCHANGED <<payload, taskState>>
                       ELSE returns
          ELSE /\ returns
               /\ UNCHANGED <<events, posts>>
    /\ UNCHANGED <<task, scrapeVars, browseVars, run_id, result, eng, ctx, hist, enrichVars, calls>>

\* error_trace = traceback.format_exc(): the stack of the exception in flight,
\* then its type and message
error_trace(e) == <<"Traceback (most recent call last):", e.kind>> \o e.msg

\* a message that is the full trace
error_msg_full_detail(e) == error_trace(e)

\* error_msg = str(e)
error_msg(e) == e.msg

\* scrape_task lines 67-79: emit 'error' with str(e) and return the error
\* payload with the traceback.  An exception leaving the handler would reach
\* Celery, which stores it under state FAILURE
ScrapeExcept ==
    /\ task = "scrape" /\ pc = "except"
    /\ LET returns == /\ payload' = [status |-> "error", data |-> NoResult,
                                     error |-> error_msg(exc), traceback |-> TRUE]
                      /\ pc' = "done"
                      /\ taskState' = "SUCCESS"
       IN IF run_id # None
          THEN \E o \in DeliveryOutcomes :
                 LET em == _send_status_update(run_id, "error", NoResult, error_msg(exc), o)
                 IN /\ Record(em)
                    /\ IF em.raised
                       THEN /\ pc' = "crashed"
                            /\ taskState' = "FAILURE"
                            /\ payload' = payload
                       ELSE returns
          ELSE /\ returns
               /\ UNCHANGED <<events, posts>>
    /\ UNCHANGED <<task, scrapeVars, browseVars, run_id, exc, result, eng, ctx, hist, enrichVars, calls>>

(* ----------------------- enrich_websites_task -------------------------- *)
Platforms == {"facebook", "twitter"}

\* a place record: its website (absent or empty "none", a string "url", a
\* truthy value that is no string "nonstring"), its socialMedia dict (platform
\* -> where the value came from), the keys the enrichment set, its status
Place(website, social) ==
    [website |-> website, socialMedia |-> social, enrichedKeys |-> {},
     enrichmentStatus |-> None]

NoSocial == [p \in {} |-> "existing"]

PlaceKinds ==
    { Place("none", NoSocial),
      Place("nonstring", NoSocial),
      Place("url", NoSocial),
      Place("url", [p \in {"facebook"} |-> "existing"]) }

\* what enrich_from_website returns: nothing (None or an empty dict), or a
\* dict; keys are the non-empty ones among emails, phones, addresses,
\* contactPageUrl, social the platforms of its socialMedia
Data(truthy, keys, social) == [truthy |-> truthy, keys |-> keys, social |-> social]

EnrichmentData ==
    { Data(FALSE, {}, {}),
      Data(TRUE, {}, {}),
      Data(TRUE, {"emails", "phones"}, {"facebook"}),
      Data(TRUE, {"addresses", "contactPageUrl"}, {"twitter"}) }

EnrichedKey(k) ==
    CASE k = "emails" -> "enrichedEmails"
      [] k = "phones" -> "enrichedPhones"
      [] k = "addresses" -> "enrichedAddresses"
      [] k = "contactPageUrl" -> "contactPageUrl"

\* a merge in which the value the place already has wins
MergeSocial_existing_wins(existing, enriched) ==
    [p \in DOMAIN existing \cup enriched |->
        IF p \in DOMAIN existing THEN existing[p] ELSE "enriched"]

\* {**existing_social, **enrichment_data['socialMedia']}
MergeSocial(existing, enriched) ==
    [p \in DOMAIN existing \cup enriched |->
        IF p \in enriched THEN "enriched" ELSE existing[p]]

\* a merge that tags the place 'completed' whatever the service returned
Merge_always_completed(place, data) ==
    [place EXCEPT
        !.enrichedKeys = @ \cup {EnrichedKey(k) : k \in data.keys},
        !.socialMedia = IF data.social # {} THEN MergeSocial(@, data.social) ELSE @,
        !.enrichmentStatus = "completed"]

\* _enrich_single_place lines 223-243: merge the data into the place and tag it
Merge(place, data) ==
    IF data.truthy
    THEN [place EXCEPT
            !.enrichedKeys = @ \cup {EnrichedKey(k) : k \in data.keys},
            !.socialMedia = IF data.social # {} THEN MergeSocial(@, data.social) ELSE @,
            !.enrichmentStatus = "completed"]
    ELSE [place EXCEPT !.enrichmentStatus = "no_data"]

\* a filter that lets every place through
WithWebsites_unfiltered(ps) == [i \in 1..Len(ps) |-> i]

\* lines 133-136: the indices of the places that have a string website
WithWebsites(ps) ==
    SelectSeq([i \in 1..Len(ps) |-> i], LAMBDA i : ps[i].website = "url")

\* the indices of places_with_websites[i:i+batch_size], i counted from 0
Batch(ps, i) ==
    LET w == WithWebsites(ps)
    IN {w[j] : j \in {j \in 1..Len(w) : i < j /\ j <= i + EnrichBatchSize}}

EnrichEvent(run, place) == [run |-> run, path |-> "enrich-update", place |-> place]

\* an enrichment emit without the except clause
_send_enrichment_update_raising(run, place, outcome) ==
    Emitted(EnrichEvent(run, place), <<outcome>>, outcome = "timeout")

\* _send_enrichment_update(run_id, enriched_place): POST the place once with a
\* 5 s timeout; a non-200 answer is logged, every Exception is caught and logged
_send_enrichment_update(run, place, outcome) ==
    Emitted(EnrichEvent(run, place), <<outcome>>, FALSE)

\* enrich_from_website has not answered
NoAnswer == Data(FALSE, {}, {})

\* the service and the sink of a run: the values enrich_from_website can
\* return, whether it can raise, and the outcomes of a POST of an enrich-update
AnyEnv == [answers |-> EnrichmentData, raises |-> TRUE, deliveries |-> DeliveryOutcomes]

NoSlot == [pc |-> "idle", returned |-> None, outcome |-> "none", answer |-> NoAnswer]

\* enrich_websites_task lines 127-149: update_state(STARTED), filter the places
\* with a website; return at once when there is none, else run
\* _enrich_places_parallel.  (Nothing in the try block raises for a list of
\* dicts, so the except clause of lines 159-169 is never entered.)
EnrichEntry ==
    /\ task = "enrich" /\ pc = "entry"
    /\ IF Len(WithWebsites(places)) = 0
       THEN /\ payload' = [status |-> "success", enriched_count |-> 0,
                           message |-> "No websites to enrich"]
            /\ taskState' = "SUCCESS"   \* update_state(STARTED), then the return
            /\ pc' = "done"
       ELSE /\ taskState' = update_state("STARTED")
            /\ pc' = "batch"
            /\ payload' = payload
    /\ UNCHANGED <<task, scrapeVars, browseVars, run_id, exc, result, events, posts,
                   eng, ctx, hist, enrichVars, calls>>

\* _enrich_places_parallel lines 183-192: take the next batch and gather one
\* _enrich_single_place per place; every coroutine runs up to its await of
\* enrich_from_website
GatherBatch ==
    /\ task = "enrich" /\ pc = "batch"
    /\ batchStart < Len(WithWebsites(places))
    /\ slots' = [i \in DOMAIN slots |->
                    IF i \in Batch(places, batchStart)
                    THEN [slots[i] EXCEPT !.pc = "enriching"] ELSE slots[i]]
    /\ pc' = "gather"
    /\ UNCHANGED <<task, scrapeVars, browseVars, run_id, taskState, exc, result, payload, events, posts,
                   eng, ctx, hist, places, batchStart, enriched_count, calls, env>>

\* _enrich_single_place lines 216-243 and 251-254: the collaborator answers
\* or raises; the place is merged and tagged, or tagged 'failed'
EnrichPlace(i) ==
    /\ task = "enrich" /\ pc = "gather"
    /\ slots[i].pc = "enriching"
    /\ \/ \E data \in env.answers :
            /\ places' = [places EXCEPT ![i] = Merge(@, data)]
            /\ slots' = [slots EXCEPT ![i].pc = "sending",
                            ![i].outcome = IF data.truthy THEN "data" ELSE "nothing",
                            ![i].answer = data]
       \/ /\ env.raises
          /\ places' = [places EXCEPT ![i].enrichmentStatus = "failed"]
          /\ slots' = [slots EXCEPT ![i].pc = "done", ![i].returned = FALSE,
                                    ![i].outcome = "raised"]
    /\ UNCHANGED <<task, scrapeVars, browseVars, run_id, pc, taskState, exc, result, payload,
                   events, posts, eng, ctx, hist, batchStart, enriched_count, calls, env>>

\* _enrich_single_place lines 247-249: send the update and return True; an
\* exception out of the send would be caught by the except clause of line 251
SendEnrichmentUpdate(i) ==
    /\ task = "enrich" /\ pc = "gather"
    /\ slots[i].pc = "sending"
    /\ \E o \in env.deliveries :
          LET em == _send_enrichment_update(run_id, places[i], o)
          IN /\ Record(em)
             /\ IF em.raised
                THEN /\ places' = [places EXCEPT ![i].enrichmentStatus = "failed"]
                     /\ slots' = [slots EXCEPT ![i].pc = "done", ![i].returned = FALSE]
                ELSE /\ places' = places
                     /\ slots' = [slots EXCEPT ![i].pc = "done", ![i].returned = TRUE]
    /\ UNCHANGED <<task, scrapeVars, browseVars, run_id, pc, taskState, exc, result, payload,
                   eng, ctx, hist, batchStart, enriched_count, calls, env>>

\* a gather that returns when the first coroutine of the batch is done
BatchDone_first_resolved ==
    /\ task = "enrich" /\ pc = "gather"
    /\ \E i \in Batch(places, batchStart) : slots[i].pc = "done"
    /\ enriched_count' = enriched_count +
          Cardinality({i \in Batch(places, batchStart) :
                          slots[i].pc = "done" /\ slots[i].returned = TRUE})
    /\ batchStart' = batchStart + EnrichBatchSize
    /\ pc' = "batch"
    /\ UNCHANGED <<task, scrapeVars, browseVars, run_id, taskState, exc, result, payload, events, posts,
                   eng, ctx, hist, places, slots, calls, env>>

\* _enrich_places_parallel lines 192-200: gather returns when every coroutine
\* of the batch is done; count the truthy results, sleep, next batch
BatchDone ==
    /\ task = "enrich" /\ pc = "gather"
    /\ \A i \in Batch(places, batchStart) : slots[i].pc = "done"
    /\ enriched_count' = enriched_count +
          Cardinality({i \in Batch(places, batchStart) : slots[i].returned = TRUE})
    /\ batchStart' = batchStart + EnrichBatchSize
    /\ pc' = "batch"
    /\ UNCHANGED <<task, scrapeVars, browseVars, run_id, taskState, exc, result, payload, events, posts,
                   eng, ctx, hist, places, slots, calls, env>>

\* enrich_websites_task lines 149-157: the loop is over, return the count
EnrichReturn ==
    /\ task = "enrich" /\ pc = "batch"
    /\ batchStart >= Len(WithWebsites(places))
    /\ payload' = [status |-> "success", enriched_count |-> enriched_count,
                   total_places |-> Len(WithWebsites(places))]
    /\ taskState' = "SUCCESS"
    /\ pc' = "done"
    /\ UNCHANGED <<task, scrapeVars, browseVars, run_id, exc, result, events, posts,
                   eng, ctx, hist, enrichVars, calls>>

(* -------------------------- specification ------------------------------ *)
NoHist == [extractor |-> None, scrape |-> "none"]

InitCommon ==
    /\ pc = "queued"
    /\ taskState = "PENDING"
    /\ exc = NoExc
    /\ result = NoResult
    /\ payload = NoPayload
    /\ events = <<>>
    /\ posts = <<>>
    /\ eng = NewEngine
    /\ ctx = 0
    /\ hist = NoHist
    /\ calls = 0
    /\ env = AnyEnv
    /\ submitted = None /\ task_id = None

InitScrape ==
    /\ task = "scrape"
    /\ actor_id \in ActorIds
    /\ input_data \in Inputs
    /\ run_id \in {None, "r1"}
    /\ places = <<>>
    /\ slots = <<>>
    /\ batchStart = 0
    /\ enriched_count = 0

\* places_data: up to MaxPlaces place records; run_id is a string (EnrichRequest)
InitEnrich ==
    /\ task = "enrich"
    /\ actor_id = None
    /\ input_data = [terms |-> "missing", run_id |-> None]
    /\ run_id = "r1"
    /\ \E n \in 0..MaxPlaces : places \in [1..n -> PlaceKinds]
    /\ slots = [i \in DOMAIN places |-> NoSlot]
    /\ batchStart = 0
    /\ enriched_count = 0

\* the defaults of create_context: no blocking flag
NoFlags == [ultra_fast |-> FALSE, block_media |-> FALSE, block_fonts |-> FALSE]
\* no request was issued yet
NoRequest == [resource_type |-> None, host |-> None, path |-> None]

\* no navigation, no context traffic and no search term outside their own
\* specifications
IdleNav == max_retries = 0 /\ attempt = 0 /\ navLog = <<>> /\ navRet = None
IdleRoute == flags = NoFlags /\ routed = FALSE /\ request = NoRequest /\ decision = None
\* min_rating = 0 and max_price = None (or 0): no filter
NoFilters == [min_rating |-> 0, max_price |-> 0]

IdleTerm ==
    /\ scraper = None /\ feed = <<>> /\ max_results = 0 /\ filters = NoFilters
    /\ discovered = <<>> /\ batchI = 0 /\ ext = <<>> /\ launches = <<>>
    /\ all_results = <<>> /\ filterLog = <<>>
    /\ term = None /\ progress = <<>> /\ loadLog = <<>> /\ visits = <<>>
    /\ pages = {}

Init == InitCommon /\ (InitScrape \/ InitEnrich) /\ IdleNav /\ IdleRoute /\ IdleTerm

Next ==
    \/ WorkerStart
    \/ ScrapeEntry
    \/ SendStarted
    \/ Route
    \/ ScrapeOther
    \/ ScrapeConfig
    \/ ScrapeCreateContext
    \/ ScrapeBody
    \/ ScrapeFinally
    \/ WrapperCleanup
    \/ WrapperExcept
    \/ SendSuccess
    \/ ScrapeExcept
    \/ EnrichEntry
    \/ GatherBatch
    \/ \E i \in DOMAIN places : EnrichPlace(i)
    \/ \E i \in DOMAIN places : SendEnrichmentUpdate(i)
    \/ BatchDone
    \/ EnrichReturn

Spec == Init /\ [][Next]_vars

(* ------------- enrich_websites_task over several batches --------------- *)
\* a service that finds nothing to add on any site or raises, and a sink that
\* answers every POST with 200
QuietEnv == [answers |-> {Data(TRUE, {}, {})}, raises |-> TRUE, deliveries |-> {"ok200"}]

\* places_data: up to MaxBatchPlaces places, each with a website and no
\* social links
InitEnrichBatches ==
    /\ pc = "queued"
    /\ taskState = "PENDING"
    /\ exc = NoExc
    /\ result = NoResult
    /\ payload = NoPayload
    /\ events = <<>>
    /\ posts = <<>>
    /\ eng = NewEngine
    /\ ctx = 0
    /\ hist = NoHist
    /\ calls = 0
    /\ env = QuietEnv
    /\ submitted = None /\ task_id = None
    /\ IdleNav /\ IdleRoute /\ IdleTerm
    /\ task = "enrich"
    /\ actor_id = None
    /\ input_data = [terms |-> "missing", run_id |-> None]
    /\ run_id = "r1"
    /\ \E n \in 0..MaxBatchPlaces : places = [i \in 1..n |-> Place("url", NoSocial)]
    /\ slots = [i \in DOMAIN places |-> NoSlot]
    /\ batchStart = 0
    /\ enriched_count = 0

NextEnrichBatches ==
    \/ WorkerStart
    \/ EnrichEntry
    \/ GatherBatch
    \/ \E i \in DOMAIN places : EnrichPlace(i)
    \/ \E i \in DOMAIN places : SendEnrichmentUpdate(i)
    \/ BatchDone
    \/ EnrichReturn

SpecEnrichBatches == InitEnrichBatches /\ [][NextEnrichBatches]_vars

(* ------------------ ScraperEngine under any client --------------------- *)
\* await engine.initialize()
ApiInitialize ==
    /\ task = "api" /\ calls < MaxApiCalls
    /\ \E fail \in InitializeFailures : eng' = initialize(eng, fail).e
    /\ calls' = calls + 1
    /\ UNCHANGED <<task, scrapeVars, browseVars, run_id, pc, taskState, exc, result, payload,
                   events, posts, ctx, hist, enrichVars>>

\* await engine.create_context(use_proxy, ultra_fast, block_media, block_fonts)
ApiCreateContext ==
    /\ task = "api" /\ calls < MaxApiCalls
    /\ \E use_proxy \in BOOLEAN, blocking \in BOOLEAN, fail \in CreateFailures :
          eng' = create_context(eng, use_proxy, blocking, fail).e
    /\ calls' = calls + 1
    /\ UNCHANGED <<task, scrapeVars, browseVars, run_id, pc, taskState, exc, result, payload,
                   events, posts, ctx, hist, enrichVars>>

\* await engine.cleanup()
ApiCleanup ==
    /\ task = "api" /\ calls < MaxApiCalls
    /\ \E failAt \in 0..(Len(eng.contexts) + 2) : eng' = cleanup(eng, failAt).e
    /\ calls' = calls + 1
    /\ UNCHANGED <<task, scrapeVars, browseVars, run_id, pc, taskState, exc, result, payload,
                   events, posts, ctx, hist, enrichVars>>

InitEngine ==
    /\ InitCommon
    /\ IdleNav /\ IdleRoute /\ IdleTerm
    /\ task = "api"
    /\ actor_id = None
    /\ input_data = [terms |-> "missing", run_id |-> None]
    /\ run_id = None
    /\ places = <<>>
    /\ slots = <<>>
    /\ batchStart = 0
    /\ enriched_count = 0

NextEngine ==
    \/ ApiInitialize
    \/ ApiCreateContext
    \/ ApiCleanup

SpecEngine == InitEngine /\ [][NextEngine]_vars

(* ----------------------- navigate_with_retry --------------------------- *)
\* what one page.goto does: it raises, it times out after 30 s (an exception
\* too), it returns None, or it returns a response with a status
Statuses == {200, 399, 400, 503}

GotoOutcomes ==
    {[kind |-> k, status |-> 0] : k \in {"raises", "timeout", "none"}}
        \cup {[kind |-> "response", status |-> st] : st \in Statuses}

\* what one iteration of the loop did: ret is the value returned (None: the
\* loop goes on), backoff the exponential sleep taken, delay whether the
\* human-like random sleep of 1 to 3 s was taken
Attempted(ret, raised, backoff, delay) ==
    [ret |-> ret, raised |-> raised, backoff |-> backoff, delay |-> delay]

\* an iteration that takes any response for a success, whatever its status
navigate_attempt_status_unchecked(att, n, o) ==
    IF o.kind \in {"raises", "timeout"}
    THEN Attempted(None, FALSE, IF att < n - 1 THEN <<2 ^ att>> ELSE <<>>, FALSE)
    ELSE IF o.kind = "response"
         THEN Attempted("True", FALSE, <<>>, TRUE)
         ELSE Attempted(None, FALSE, <<>>, FALSE)

\* navigate_with_retry lines 154-164, one iteration with attempt = att and
\* max_retries = n: a response with status < 400 sleeps the random delay and
\* returns True; any other return of goto is logged and the loop goes on at
\* once; an Exception is logged and, unless this was the last attempt, followed
\* by a sleep of 2 ** attempt seconds
navigate_attempt(att, n, o) ==
    IF o.kind \in {"raises", "timeout"}
    THEN Attempted(None, FALSE, IF att < n - 1 THEN <<2 ^ att>> ELSE <<>>, FALSE)
    ELSE IF o.kind = "response" /\ o.status < 400
         THEN Attempted("True", FALSE, <<>>, TRUE)
         ELSE Attempted(None, FALSE, <<>>, FALSE)

\* one iteration of `for attempt in range(max_retries)`
NavigateAttempt ==
    /\ task = "navigate" /\ pc = "nav_loop"
    /\ attempt < max_retries
    /\ \E o \in GotoOutcomes :
          LET r == navigate_attempt(attempt, max_retries, o)
          IN /\ navLog' = Append(navLog, [attempt |-> attempt, goto |-> o,
                                          backoff |-> r.backoff, delay |-> r.delay])
             /\ IF r.raised
                THEN pc' = "nav_raised" /\ UNCHANGED <<attempt, navRet>>
                ELSE IF r.ret # None
                     THEN pc' = "nav_done" /\ navRet' = r.ret /\ attempt' = attempt
                     ELSE pc' = pc /\ attempt' = attempt + 1 /\ navRet' = navRet
    /\ UNCHANGED <<task, scrapeVars, run_id, taskState, exc, result, payload, events, posts,
                   eng, ctx, hist, enrichVars, calls, max_retries, routeVars, termVars>>

\* line 166: the range is exhausted, return False
NavigateExhausted ==
    /\ task = "navigate" /\ pc = "nav_loop"
    /\ attempt >= max_retries
    /\ navRet' = "False"
    /\ pc' = "nav_done"
    /\ UNCHANGED <<task, scrapeVars, run_id, taskState, exc, result, payload, events, posts,
                   eng, ctx, hist, enrichVars, calls, max_retries, attempt, navLog,
                   routeVars, termVars>>

\* everything of the worker slot that a specification of one component leaves
\* untouched
IdleWorker ==
    /\ actor_id = None
    /\ input_data = [terms |-> "missing", run_id |-> None]
    /\ run_id = None
    /\ taskState = "PENDING"
    /\ exc = NoExc
    /\ result = NoResult
    /\ payload = NoPayload
    /\ events = <<>>
    /\ posts = <<>>
    /\ eng = NewEngine
    /\ ctx = 0
    /\ hist = NoHist
    /\ calls = 0
    /\ env = AnyEnv
    /\ submitted = None /\ task_id = None
    /\ places = <<>>
    /\ slots = <<>>
    /\ batchStart = 0
    /\ enriched_count = 0

InitNavigate ==
    /\ IdleWorker /\ IdleRoute /\ IdleTerm
    /\ task = "navigate"
    /\ pc = "nav_loop"
    /\ max_retries \in 0..MaxRetries
    /\ attempt = 0
    /\ navLog = <<>>
    /\ navRet = None

NextNavigate ==
    \/ NavigateAttempt
    \/ NavigateExhausted

SpecNavigate == InitNavigate /\ [][NextNavigate]_vars

(* ------------------- resource-interception policy ---------------------- *)
\* request.resource_type
ResourceTypes == {"document", "image", "font", "stylesheet", "script"}

\* request.url, as the host and the path of the request
Hosts == {"example.com", "www.google-analytics.com", "STATS.G.DOUBLECLICK.NET",
          "www.facebook.com"}
Paths == {"/index.html", "/img/logo.png", "/fonts/a.woff2", "/FONTS/A.TTF", "/tr"}

Requests == [resource_type : ResourceTypes, host : Hosts, path : Paths]

\* str.lower() on the hosts and paths above
lower(str) ==
    CASE str = "STATS.G.DOUBLECLICK.NET" -> "stats.g.doubleclick.net"
      [] str = "/FONTS/A.TTF" -> "/fonts/a.ttf"
      [] OTHER -> str

\* `needle in url` for url = host + path: the substrings of interest that the
\* string holds
Substrings(host, path) ==
    (CASE host = "www.google-analytics.com" -> {"google-analytics.com"}
       [] host = "stats.g.doubleclick.net" -> {"doubleclick.net", "stats.g.doubleclick.net"}
       [] OTHER -> {})
    \cup (CASE path = "/fonts/a.woff2" -> {".woff", ".woff2"}
            [] path = "/fonts/a.ttf" -> {".ttf"}
            [] OTHER -> {})
    \cup (IF host = "www.facebook.com" /\ path = "/tr" THEN {"facebook.com/tr"} ELSE {})

\* url = request.url.lower()
UrlOf(req) == Substrings(lower(req.host), lower(req.path))

\* line 109: any(ext in url for ext in ['.woff', '.woff2', '.ttf', '.otf'])
HasFontExtension(url) == url \cap {".woff", ".woff2", ".ttf", ".otf"} # {}

\* lines 119-126: any(domain in url for domain in [...])
OnTrackingDomain(url) ==
    url \cap {"google-analytics.com", "googletagmanager.com", "facebook.com/tr",
              "doubleclick.net", "analytics.google.com", "stats.g.doubleclick.net"} # {}

Flags == [ultra_fast : BOOLEAN, block_media : BOOLEAN, block_fonts : BOOLEAN]

\* a handler that blocks stylesheets whenever media are blocked
_handle_route_css_with_media(req, ultra_fast, block_media, block_fonts) ==
    LET url == UrlOf(req)
    IN IF (ultra_fast \/ block_media) /\ req.resource_type = "image" THEN "abort"
       ELSE IF (ultra_fast \/ block_fonts)
               /\ (req.resource_type = "font" \/ HasFontExtension(url)) THEN "abort"
       ELSE IF (ultra_fast \/ block_media) /\ req.resource_type = "stylesheet" THEN "abort"
       ELSE IF OnTrackingDomain(url) THEN "abort"
       ELSE "continue"

\* ScraperEngine._handle_route(route, ultra_fast, block_media, block_fonts)
_handle_route(req, ultra_fast, block_media, block_fonts) ==
    LET url == UrlOf(req)
    IN IF (ultra_fast \/ block_media) /\ req.resource_type = "image" THEN "abort"
       ELSE IF (ultra_fast \/ block_fonts)
               /\ (req.resource_type = "font" \/ HasFontExtension(url)) THEN "abort"
       ELSE IF ultra_fast /\ req.resource_type = "stylesheet" THEN "abort"
       ELSE IF OnTrackingDomain(url) THEN "abort"
       ELSE "continue"

\* create_context line 71: the handler is installed when a blocking flag is set
AnyBlocking(f) == f.ultra_fast \/ f.block_media \/ f.block_fonts

\* await engine.create_context(use_proxy, ultra_fast, block_media, block_fonts):
\* the context comes with the handler on "**/*" exactly when a flag is set
RouteCreateContext ==
    /\ task = "route" /\ pc = "no_context"
    /\ \E f \in Flags, use_proxy \in BOOLEAN, fail \in CreateFailures :
          LET r == create_context(eng, use_proxy, AnyBlocking(f), fail)
          IN /\ eng' = r.e
             /\ IF r.raised
                THEN pc' = "create_failed" /\ UNCHANGED <<flags, routed, ctx>>
                ELSE /\ pc' = "context"
                     /\ ctx' = r.ctx
                     /\ flags' = f
                     /\ routed' = AnyBlocking(f)
    /\ UNCHANGED <<task, scrapeVars, run_id, taskState, exc, result, payload, events, posts,
                   hist, enrichVars, calls, navVars, request, decision, termVars>>

\* a page of the context issues a request: the installed handler decides; a
\* context without handler lets every request through
RouteRequest ==
    /\ task = "route" /\ pc = "context"
    /\ \E req \in Requests :
          /\ request' = req
          /\ decision' = IF routed
                         THEN _handle_route(req, flags.ultra_fast, flags.block_media,
                                            flags.block_fonts)
                         ELSE "continue"
    /\ UNCHANGED <<task, scrapeVars, run_id, pc, taskState, exc, result, payload, events,
                   posts, eng, ctx, hist, enrichVars, calls, navVars, flags, routed, termVars>>

InitRoute ==
    /\ IdleWorker /\ IdleNav /\ IdleTerm /\ IdleRoute
    /\ task = "route"
    /\ pc = "no_context"

NextRoute ==
    \/ RouteCreateContext
    \/ RouteRequest

SpecRoute == InitRoute /\ [][NextRoute]_vars

(* ---------------------------- discovery -------------------------------- *)
\* target identifiers (ASINs, place URLs)
Ids == 1..MaxIds

SeqsUpTo(S, n) == UNION {[1..k -> S] : k \in 0..n}

IsIn(x, seq) == \E i \in 1..Len(seq) : seq[i] = x

Min(a, b) == IF a <= b THEN a ELSE b

\* the sequences of identifiers a discovery can read.  Identifiers are opaque
\* (only compared for equality), so they are numbered in the order in which
\* the site first shows them.
Canonical(e) ==
    \A i \in 1..Len(e) : e[i] = 1 \/ \E j \in 1..(i - 1) : e[j] >= e[i] - 1

Readings == {e \in SeqsUpTo(Ids, MaxSeen) : Canonical(e)}

\* a reading cut into three consecutive parts
Cuts(e) ==
    {<<SubSeq(e, 1, ij[1]), SubSeq(e, ij[1] + 1, ij[2]), SubSeq(e, ij[2] + 1, Len(e))>> :
        ij \in {xy \in (0..Len(e)) \X (0..Len(e)) : xy[1] <= xy[2]}}

\* what one Amazon result page shows: the valid data-asin values of the product
\* containers and the ASINs of the /dp/ links, each in document order.  A page
\* whose load raises ends the search like a page that shows nothing.
EmptyPage == [primary |-> <<>>, alt |-> <<>>]

\* two result pages; the /dp/ links of the second are never read
AmazonFeeds ==
    UNION {{<<[primary |-> c[1], alt |-> c[2]], [primary |-> c[3], alt |-> <<>>]>> :
                c \in Cuts(e)} : e \in Readings}

\* what the Maps searches of the term show, one entry per search attempt: the
\* place links in the order the scroll loop meets them (a redirect to a single
\* place is a search with one link; a load that raises is a search that stops
\* early)
MapsFeeds == UNION {Cuts(e) : e \in Readings}

\* the loops of amazon.py 249-256 and 261-269 over the identifiers of one
\* selector: append the unseen ones, count them, stop once max_results is reached
RECURSIVE AppendNew(_, _, _)
AppendNew(acc, ids, cap) ==
    IF ids = <<>> THEN acc
    ELSE LET x == Head(ids)
             acc1 == IF IsIn(x, acc.list) THEN acc
                     ELSE [list |-> Append(acc.list, x), found |-> acc.found + 1]
         IN IF Len(acc1.list) >= cap THEN acc1
            ELSE AppendNew(acc1, Tail(ids), cap)

\* one pass of a discovery loop: the new targets it gave, the targets held after it
Visit(found, total) == [found |-> found, total |-> total]

\* what a discovery loop ends with: the targets and the passes made
Searched(list, log) == [list |-> list, visits |-> log]

\* a loop that goes on to the next page after a page without a new product
RECURSIVE SearchPages_past_empty_page(_, _, _, _)
SearchPages_past_empty_page(sofar, current_page, fd, cap) ==
    IF ~(Len(sofar.list) < cap /\ current_page <= max_pages) THEN sofar
    ELSE LET page == IF current_page <= Len(fd) THEN fd[current_page] ELSE EmptyPage
             a1 == AppendNew([list |-> sofar.list, found |-> 0], page.primary, cap)
             a2 == IF current_page = 1 /\ a1.found < AltSelectorBelow
                   THEN AppendNew(a1, page.alt, cap) ELSE a1
             now == Searched(a2.list, Append(sofar.visits, Visit(a2.found, Len(a2.list))))
         IN IF Len(a2.list) < cap
            THEN SearchPages_past_empty_page(now, current_page + 1, fd, cap)
            ELSE now

\* the while loop of _search_products, lines 225-282, from the state `sofar`
\* (asins and the pages visited) at the head of an iteration
RECURSIVE SearchPages(_, _, _, _)
SearchPages(sofar, current_page, fd, cap) ==
    IF ~(Len(sofar.list) < cap /\ current_page <= max_pages) THEN sofar
    ELSE LET page == IF current_page <= Len(fd) THEN fd[current_page] ELSE EmptyPage
             a1 == AppendNew([list |-> sofar.list, found |-> 0], page.primary, cap)
             a2 == IF current_page = 1 /\ a1.found < AltSelectorBelow
                   THEN AppendNew(a1, page.alt, cap) ELSE a1
             now == Searched(a2.list, Append(sofar.visits, Visit(a2.found, Len(a2.list))))
         IN IF a2.found = 0 THEN now
            ELSE IF Len(a2.list) < cap
                 THEN SearchPages(now, current_page + 1, fd, cap)
                 ELSE now

\* no page visited, no product collected
NotSearched == Searched(<<>>, <<>>)

\* a search that takes max_results as a limit per page
_search_products_cap_per_page(fd, cap) == SearchPages(NotSearched, 1, fd, cap * max_pages).list

\* AmazonProductScraper._search_products: return asins[:max_results]
_search_products(fd, cap) ==
    LET asins == SearchPages(NotSearched, 1, fd, cap).list
    IN SubSeq(asins, 1, Min(cap, Len(asins)))

\* place_urls of _search_places, lines 238-249: add the links to the set until
\* it holds max_results of them
RECURSIVE CollectLinks(_, _, _)
CollectLinks(place_urls, links, cap) ==
    IF links = <<>> THEN place_urls
    ELSE LET s1 == place_urls \cup {Head(links)}
         IN IF Cardinality(s1) >= cap THEN s1
            ELSE CollectLinks(s1, Tail(links), cap)

\* list(a_set): the elements in the iteration order of the set, which for
\* strings depends on the hash seed of the process
ListOfSet(S) ==
    {p \in [1..Cardinality(S) -> S] : \A x \in S : \E i \in 1..Cardinality(S) : p[i] = x}

\* GoogleMapsScraperV3._search_places: return list(place_urls)
_search_places(links, cap) == ListOfSet(CollectLinks({}, links, cap))

\* google_maps.py 138-140: merge and deduplicate
RECURSIVE MergePlaces(_, _)
MergePlaces(ps, new_places) ==
    IF new_places = <<>> THEN ps
    ELSE MergePlaces(IF IsIn(Head(new_places), ps) THEN ps
                     ELSE Append(ps, Head(new_places)),
                     Tail(new_places))

\* the retry loop of GoogleMapsScraperV3.scrape, lines 126-147: the lists
\* `places` it can end with
RECURSIVE SearchAttempts(_, _, _, _)
SearchAttempts(ps, att, fd, cap) ==
    IF ~(att < max_attempts /\ Len(ps) < cap) THEN {Searched(ps, <<>>)}
    ELSE LET links == IF att + 1 <= Len(fd) THEN fd[att + 1] ELSE <<>>
         IN UNION { LET merged == MergePlaces(ps, new_places)
                        visit == Visit(Len(merged) - Len(ps), Len(merged))
                    IN IF Len(merged) >= cap THEN {Searched(merged, <<visit>>)}
                       ELSE {Searched(rest.list, <<visit>> \o rest.visits) :
                                rest \in SearchAttempts(merged, att + 1, fd, cap)}
                    : new_places \in _search_places(links, cap) }

\* line 154: places_to_process = places[:max_results]
places_to_process(fd, cap) ==
    {SubSeq(r.list, 1, Min(cap, Len(r.list))) : r \in SearchAttempts(<<>>, 0, fd, cap)}

\* a message for the progress callback that carries counts: "Found n",
\* "Extracting details: processed/total", "Completed scraping for ...: n"
Report(kind, processed, total) == [kind |-> kind, processed |-> processed, total |-> total]

\* the search terms of a job
Terms == {"x", "y"}

\* no detail extraction was launched for the target yet
NoExt == [pc |-> "pending", outcome |-> None]

\* the name of the page a search works on (detail pages are named 1, 2, ...)
SearchPage == 0

\* page = await context.new_page(): one more Page is open in the context
OpenPage(ps, p) == ps \cup {p}

\* a close that leaves the Page open
ClosePage_leaves_open(ps, p) == ps

\* await page.close(): the Page is no longer open in the context (a call
\* that raises found the page, its context or the browser already gone)
ClosePage(ps, p) == ps \ {p}

\* amazon.py 153-158: product_asins = await self._search_products(...), which
\* opens its page at line 219 and closes it in its finally clause (292-293)
DiscoverAmazon ==
    /\ task \in {"discover", "term"} /\ pc = "search"
    /\ scraper = "amazon"
    /\ discovered' = _search_products(feed, max_results)
    /\ visits' = SearchPages(NotSearched, 1, feed, max_results).visits
    /\ ext' = [i \in 1..Len(discovered') |-> NoExt]
    /\ progress' = Append(progress, Report("found", Len(discovered'), Len(discovered')))
    /\ pages' = ClosePage(OpenPage(pages, SearchPage), SearchPage)
    /\ pc' = "batches"
    /\ UNCHANGED <<task, scrapeVars, run_id, taskState, exc, result, payload, events, posts,
                   eng, ctx, hist, enrichVars, calls, navVars, routeVars,
                   termConfig, batchI, launches, all_results, filterLog, loadLog>>

\* google_maps.py 126-154: the search attempts, merged, cut to max_results;
\* each _search_places opens its page at line 193 and closes it in its finally
\* clause (296-297) before the next attempt
DiscoverMaps ==
    /\ task \in {"discover", "term"} /\ pc = "search"
    /\ scraper = "maps"
    /\ \E r \in SearchAttempts(<<>>, 0, feed, max_results) :
          /\ discovered' = SubSeq(r.list, 1, Min(max_results, Len(r.list)))
          /\ visits' = r.visits
          /\ progress' = Append(progress, Report("found", Len(r.list), Len(r.list)))
    /\ ext' = [i \in 1..Len(discovered') |-> NoExt]
    /\ pages' = ClosePage(OpenPage(pages, SearchPage), SearchPage)
    /\ pc' = "batches"
    /\ UNCHANGED <<task, scrapeVars, run_id, taskState, exc, result, payload, events, posts,
                   eng, ctx, hist, enrichVars, calls, navVars, routeVars,
                   termConfig, batchI, launches, all_results, filterLog, loadLog>>

\* a site with more to show than a search reads: n result pages with one new
\* product each, n searches with one new place each
ManyPages(n) == [p \in 1..n |-> [primary |-> <<p>>, alt |-> <<>>]]
ManySearches(n) == [a \in 1..n |-> <<a>>]

\* job-level filters of the Amazon configuration: min_rating (0: none) and
\* max_price (None or 0: none)
FilterValues == [min_rating : {0, 4}, max_price : {0, 20}]

InitDiscover ==
    /\ IdleWorker /\ IdleNav /\ IdleRoute
    /\ task = "discover"
    /\ pc = "search"
    /\ \/ /\ scraper = "amazon" /\ feed \in AmazonFeeds /\ filters \in FilterValues
          /\ max_results \in 1..MaxIds
       \/ /\ scraper = "maps" /\ feed \in MapsFeeds /\ filters = NoFilters
          /\ max_results \in 1..MaxIds
       \/ /\ scraper = "amazon" /\ filters = NoFilters
          /\ \E n \in {max_pages - 1, max_pages, max_pages + 1} : feed = ManyPages(n)
          /\ max_results = AmazonDefaultMaxResults
       \/ /\ scraper = "maps" /\ filters = NoFilters
          /\ \E n \in {max_attempts - 1, max_attempts, max_attempts + 1} :
                feed = ManySearches(n)
          /\ max_results = MapsDefaultMaxResults
    /\ discovered = <<>>
    /\ batchI = 0
    /\ ext = <<>>
    /\ launches = <<>>
    /\ all_results = <<>>
    /\ filterLog = <<>>
    /\ term \in Terms
    /\ progress = <<>>
    /\ loadLog = <<>>
    /\ visits = <<>>
    /\ pages = {}

NextDiscover ==
    \/ DiscoverAmazon
    \/ DiscoverMaps

SpecDiscover == InitDiscover /\ [][NextDiscover]_vars

(* --------------------- batches of detail extraction -------------------- *)
\* a slice that takes one element too many
batch_slice_inclusive(targets, i) ==
    SubSeq(targets, i + 1, Min(i + batch_size + 1, Len(targets)))

\* batch = targets[i:i+batch_size]
batch_slice(targets, i) ==
    SubSeq(targets, i + 1, Min(i + batch_size, Len(targets)))

\* the positions in `discovered` of the targets of the batch that starts at i
BatchPositions(i) == (i + 1)..(i + Len(batch_slice(discovered, i)))

\* a batch loop that ends as soon as a record was kept
MoreBatches_until_kept(i, targets) == i < Len(targets) /\ all_results = <<>>

\* for i in range(0, len(targets), batch_size): whether the loop has a next i
MoreBatches(i, targets) == i < Len(targets)

\* what asyncio.gather(..., return_exceptions=True) holds for one target: the
\* dict the extraction returned (with the keys it has), None, or the exception
\* that left the coroutine
Detail(kind, t, keys, rating, price) ==
    [kind |-> kind, target |-> t, keys |-> keys, rating |-> rating, price |-> price]

ExceptionResult(t) == Detail("exception", t, {}, 0, 0)

\* _extract_product_details after page.goto: a product dict (rated 5 at 10 USD,
\* or rated 3 at 50 USD); on an exception inside the try block the dict built
\* so far with 'error' added: asin and url only when page.goto or the parse
\* raised, price and rating too when a later statement raised (line 363: int('')
\* for a review count text whose first run of digits and commas has no digit);
\* the exception of page.close() in the finally clause
AmazonDetails(t) ==
    { Detail("dict", t, {"rating", "price"}, 5, 10),
      Detail("dict", t, {"rating", "price"}, 3, 50),
      Detail("dict", t, {"error"}, 0, 0),
      Detail("dict", t, {"rating", "price", "error"}, 5, 10),
      ExceptionResult(t) }

\* _extract_place_details after page.goto: the place dict; None on an
\* exception inside the try block; the exception of page.close()
MapsDetails(t) ==
    { Detail("dict", t, {"rating"}, 5, 0),
      Detail("none", t, {}, 0, 0),
      ExceptionResult(t) }

\* a price filter that lets a record without a price through
Kept_absent_price_passes(r, f) ==
    /\ ~(f.min_rating > 0 /\ (IF "rating" \in r.keys THEN r.rating ELSE 0) < f.min_rating)
    /\ ~(f.max_price # 0 /\ "price" \in r.keys /\ r.price > f.max_price)

\* amazon.py 189-192: the record passes min_rating and max_price
\* (result.get('rating', 0), result.get('price', float('inf')))
Kept(r, f) ==
    /\ ~(f.min_rating > 0 /\ (IF "rating" \in r.keys THEN r.rating ELSE 0) < f.min_rating)
    /\ ~(f.max_price # 0 /\ ("price" \notin r.keys \/ r.price > f.max_price))

\* amazon.py 193: result['searchKeyword'] = keyword
Tagged(r, keyword) ==
    [kind |-> r.kind, target |-> r.target, keys |-> r.keys \cup {"searchKeyword"},
     rating |-> r.rating, price |-> r.price, searchKeyword |-> keyword]

TagAll(rs, keyword) == [j \in 1..Len(rs) |-> Tagged(rs[j], keyword)]

\* the results of the targets of the batch at i that have resolved, in batch order
BatchResults(i) ==
    LET n == Len(batch_slice(discovered, i))
        all == [j \in 1..n |-> ext[i + j]]
    IN [j \in 1..Len(SelectSeq(all, LAMBDA x : x.pc = "done")) |->
            SelectSeq(all, LAMBDA x : x.pc = "done")[j].outcome]

\* lines 167-184 (Amazon), 156-174 (Maps): take the next batch, create one
\* extraction coroutine per target and hand them to asyncio.gather
LaunchBatch ==
    /\ task = "term" /\ pc = "batches"
    /\ MoreBatches(batchI, discovered)
    /\ progress' = Append(progress, Report("extracting",
                                            Min(batchI + batch_size, Len(discovered)),
                                            Len(discovered)))
    /\ launches' = Append(launches, batch_slice(discovered, batchI))
    /\ pc' = "gather"
    /\ UNCHANGED <<task, scrapeVars, run_id, taskState, exc, result, payload, events, posts,
                   eng, ctx, hist, enrichVars, calls, navVars, routeVars, termConfig,
                   discovered, batchI, ext, all_results, filterLog, loadLog, visits, pages>>

\* the first step of an extraction coroutine: page = await context.new_page(),
\* which raises or gives the page the extraction goes on with
ExtractStart(k) ==
    /\ task = "term" /\ pc = "gather"
    /\ k \in BatchPositions(batchI)
    /\ ext[k].pc = "pending"
    /\ \E opens \in BOOLEAN :
          /\ ext' = [ext EXCEPT ![k] =
                    IF opens THEN [pc |-> "running", outcome |-> None]
                    ELSE [pc |-> "done", outcome |-> ExceptionResult(discovered[k])]]
          /\ pages' = IF opens THEN OpenPage(pages, k) ELSE pages
    /\ UNCHANGED <<task, scrapeVars, run_id, pc, taskState, exc, result, payload, events,
                   posts, eng, ctx, hist, enrichVars, calls, navVars, routeVars, termConfig,
                   discovered, batchI, launches, all_results, filterLog, progress, loadLog, visits>>

\* the rest of _extract_product_details / _extract_place_details: the coroutine
\* resolves with a dict, with None or with an exception; on every path the
\* finally clause has called page.close() before
ExtractResolve(k) ==
    /\ task = "term"
    /\ k \in DOMAIN ext
    /\ ext[k].pc = "running"
    /\ \E r \in (IF scraper = "amazon" THEN AmazonDetails(discovered[k])
                 ELSE MapsDetails(discovered[k])) :
          ext' = [ext EXCEPT ![k] = [pc |-> "done", outcome |-> r]]
    /\ pages' = ClosePage(pages, k)
    /\ UNCHANGED <<task, scrapeVars, run_id, pc, taskState, exc, result, payload, events,
                   posts, eng, ctx, hist, enrichVars, calls, navVars, routeVars, termConfig,
                   discovered, batchI, launches, all_results, filterLog, progress, loadLog, visits>>

\* what follows the gather: the dicts among the results are filtered (Amazon)
\* and appended to the output, the loop moves to the next batch
AfterGather ==
    LET dicts == SelectSeq(BatchResults(batchI), LAMBDA r : r.kind = "dict")
    IN /\ IF scraper = "amazon"
          THEN /\ filterLog' = filterLog \o dicts
               /\ all_results' = all_results \o
                                     TagAll(SelectSeq(dicts, LAMBDA r : Kept(r, filters)), term)
          ELSE /\ filterLog' = filterLog
               /\ all_results' = all_results \o dicts
       /\ batchI' = batchI + batch_size
       /\ pc' = "batches"
       /\ UNCHANGED <<task, scrapeVars, run_id, taskState, exc, result, payload, events,
                      posts, eng, ctx, hist, enrichVars, calls, navVars, routeVars,
                      termConfig, discovered, ext, launches, progress, loadLog, visits, pages>>

\* a gather that returns when the first coroutine of the batch has resolved
GatherDone_first_completed ==
    /\ task = "term" /\ pc = "gather"
    /\ \E k \in BatchPositions(batchI) : ext[k].pc = "done"
    /\ AfterGather

\* batch_results = await asyncio.gather(*tasks, return_exceptions=True): returns
\* when every coroutine of the batch has resolved, by value or by exception;
\* then lines 186-194 (Amazon), 176-181 (Maps)
GatherDone ==
    /\ task = "term" /\ pc = "gather"
    /\ \A k \in BatchPositions(batchI) : ext[k].pc = "done"
    /\ AfterGather

\* the records of the output that carry the keyword
OfKeyword(rs, keyword) ==
    SelectSeq(rs, LAMBDA r : "searchKeyword" \in r.keys /\ r.searchKeyword = keyword)

\* the batch loop of the term is over; amazon.py 196-199 reports the number of
\* products kept for the keyword, google_maps.py goes on to the next term
\* without a report
TermDone ==
    /\ task = "term" /\ pc = "batches"
    /\ ~MoreBatches(batchI, discovered)
    /\ progress' = IF scraper = "amazon"
                   THEN Append(progress, Report("completed",
                                                Len(OfKeyword(all_results, term)),
                                                Len(OfKeyword(all_results, term))))
                   ELSE progress
    /\ pc' = "term_done"
    /\ UNCHANGED <<task, scrapeVars, run_id, taskState, exc, result, payload, events, posts,
                   eng, ctx, hist, enrichVars, calls, navVars, routeVars, termConfig,
                   discovered, batchI, ext, launches, all_results, filterLog, loadLog, visits, pages>>

\* a site that shows n different targets on one page / in one search
ListedOnce(n) == [i \in 1..n |-> i]

InitTerm ==
    /\ IdleWorker /\ IdleNav /\ IdleRoute
    /\ task = "term"
    /\ pc = "search"
    /\ \E n \in 0..MaxIds :
          \/ /\ scraper = "amazon"
             /\ feed = <<[primary |-> ListedOnce(n), alt |-> <<>>]>>
             /\ filters \in FilterValues
          \/ /\ scraper = "maps"
             /\ feed = <<ListedOnce(n)>>
             /\ filters = NoFilters
    /\ max_results = MaxIds
    /\ discovered = <<>>
    /\ batchI = 0
    /\ ext = <<>>
    /\ launches = <<>>
    /\ all_results = <<>>
    /\ filterLog = <<>>
    /\ term \in Terms
    /\ progress = <<>>
    /\ loadLog = <<>>
    /\ visits = <<>>
    /\ pages = {}

NextTerm ==
    \/ DiscoverAmazon
    \/ DiscoverMaps
    \/ LaunchBatch
    \/ \E k \in DOMAIN ext : ExtractStart(k)
    \/ \E k \in DOMAIN ext : ExtractResolve(k)
    \/ GatherDone
    \/ TermDone

SpecTerm == InitTerm /\ [][NextTerm]_vars

(* ------------------- one detail extraction, step by step --------------- *)
\* a call of page.goto made by the extraction: the page asked for ("detail",
\* "reviews"), what goto did, and the sleeps of a retry loop around it (none)
Load(url, o) == [url |-> url, goto |-> o, backoff |-> <<>>]

\* the variables a step of the extraction leaves alone
extractFrame == <<task, scrapeVars, run_id, taskState, exc, result, payload, events, posts,
                  eng, ctx, hist, enrichVars, calls, navVars, routeVars, termConfig,
                  discovered, batchI, launches, all_results, filterLog, progress, visits>>

\* product_data = {'asin': asin, 'url': ...} (amazon.py 305-308): the record
\* before anything was read from the page
Started(t) == Detail("dict", t, {}, 0, 0)

\* page = await context.new_page(), before the try block (amazon.py 304,
\* google_maps.py 303): an exception leaves the coroutine
ExtractNewPage ==
    /\ task = "extract" /\ pc = "new_page"
    /\ \E opens \in BOOLEAN :
          IF opens
          THEN /\ ext' = [ext EXCEPT ![1] = [pc |-> "running",
                                              outcome |-> Started(discovered[1])]]
               /\ pages' = OpenPage(pages, 1)
               /\ pc' = "goto"
          ELSE /\ ext' = [ext EXCEPT ![1] = [pc |-> "done",
                                              outcome |-> ExceptionResult(discovered[1])]]
               /\ pc' = "extract_done"
               /\ pages' = pages
    /\ UNCHANGED <<extractFrame, loadLog>>

\* await page.goto(url, wait_until="domcontentloaded", timeout=30000), called
\* once (amazon.py 311, google_maps.py 306): an exception (a timeout is one)
\* goes to the except clause, any return value lets the extraction go on; the
\* response is not kept, so its status is never read
ExtractGoto ==
    /\ task = "extract" /\ pc = "goto"
    /\ \E o \in GotoOutcomes :
          /\ loadLog' = Append(loadLog, Load("detail", o))
          /\ pc' = IF o.kind \in {"raises", "timeout"} THEN "except" ELSE "parse"
    /\ UNCHANGED <<extractFrame, ext, pages>>

\* the rest of the try block (amazon.py 312-529, google_maps.py 307-447): the
\* record is built from whatever page was loaded, or a statement raises,
\* before price and rating were read or after (amazon.py 363).
\* With extract_reviews Amazon loads the reviews page with one more page.goto,
\* whose exception _extract_reviews swallows (amazon.py 541-559)
ExtractParse ==
    /\ task = "extract" /\ pc = "parse"
    /\ \/ /\ \E r \in {d \in (IF scraper = "amazon" THEN AmazonDetails(discovered[1])
                                 ELSE MapsDetails(discovered[1])) :
                            d.kind = "dict" /\ "error" \notin d.keys} :
                ext' = [ext EXCEPT ![1].outcome = r]
          /\ \/ loadLog' = loadLog
             \/ /\ scraper = "amazon"
                /\ \E o \in GotoOutcomes : loadLog' = Append(loadLog, Load("reviews", o))
          /\ pc' = "finally"
       \/ /\ pc' = "except"
          /\ \E keys \in {{}, {"rating", "price"}} :
                ext' = [ext EXCEPT ![1].outcome =
                           IF scraper = "amazon" /\ keys # {}
                           THEN Detail("dict", discovered[1], keys, 5, 10)
                           ELSE Started(discovered[1])]
          /\ loadLog' = loadLog
    /\ UNCHANGED <<extractFrame, pages>>

\* except Exception (amazon.py 531-533: product_data['error'] = str(e);
\* google_maps.py 449-451: return None)
ExtractExcept ==
    /\ task = "extract" /\ pc = "except"
    /\ ext' = [ext EXCEPT ![1].outcome =
                  IF scraper = "amazon" THEN [@ EXCEPT !.keys = @ \cup {"error"}]
                  ELSE Detail("none", discovered[1], {}, 0, 0)]
    /\ pc' = "finally"
    /\ UNCHANGED <<extractFrame, loadLog, pages>>

\* finally: await page.close() (amazon.py 535-536, google_maps.py 453-454),
\* whose exception replaces the value about to be returned
ExtractFinally ==
    /\ task = "extract" /\ pc = "finally"
    /\ \E closes \in BOOLEAN :
          ext' = [ext EXCEPT ![1] = [pc |-> "done",
                                     outcome |-> IF closes THEN ext[1].outcome
                                                 ELSE ExceptionResult(discovered[1])]]
    /\ pages' = ClosePage(pages, 1)
    /\ pc' = "extract_done"
    /\ UNCHANGED <<extractFrame, loadLog>>

\* _extract_product_details(context, asin, ...) / _extract_place_details(context,
\* url, ...) called for one target
InitExtract ==
    /\ IdleWorker /\ IdleNav /\ IdleRoute
    /\ task = "extract"
    /\ pc = "new_page"
    /\ scraper \in {"amazon", "maps"}
    /\ feed = <<>>
    /\ max_results = 0
    /\ filters = NoFilters
    /\ term \in Terms
    /\ \E t \in Ids : discovered = <<t>>
    /\ ext = <<NoExt>>
    /\ batchI = 0
    /\ launches = <<>>
    /\ all_results = <<>>
    /\ filterLog = <<>>
    /\ progress = <<>>
    /\ loadLog = <<>>
    /\ visits = <<>>
    /\ pages = {}

NextExtract ==
    \/ ExtractNewPage
    \/ ExtractGoto
    \/ ExtractParse
    \/ ExtractExcept
    \/ ExtractFinally

SpecExtract == InitExtract /\ [][NextExtract]_vars

(* ------------- one keyword, eight products on two result pages ---------- *)
\* the identifiers a, a + 1, ..., b in this order
Listed(a, b) == [i \in 1..(b - a + 1) |-> a + i - 1]

\* eight different products, the first k on the first result page and the
\* others on the second
TwoPages(k) ==
    <<[primary |-> Listed(1, k), alt |-> <<>>], [primary |-> Listed(k + 1, 8), alt |-> <<>>]>>

\* scrape({'search_keywords': ['x'], 'max_results': 6, ...}) of the Amazon
\* extractor, with no filter or with both filters
InitEndToEnd ==
    /\ IdleWorker /\ IdleNav /\ IdleRoute
    /\ task = "term"
    /\ pc = "search"
    /\ scraper = "amazon"
    /\ term = "x"
    /\ max_results = 6
    /\ \E k \in 1..7 : feed = TwoPages(k)
    /\ filters \in {NoFilters, [min_rating |-> 4, max_price |-> 20]}
    /\ discovered = <<>>
    /\ batchI = 0
    /\ ext = <<>>
    /\ launches = <<>>
    /\ all_results = <<>>
    /\ filterLog = <<>>
    /\ progress = <<>>
    /\ loadLog = <<>>
    /\ visits = <<>>
    /\ pages = {}

NextEndToEnd ==
    \/ DiscoverAmazon
    \/ LaunchBatch
    \/ \E k \in DOMAIN ext : ExtractStart(k)
    \/ \E k \in DOMAIN ext : ExtractResolve(k)
    \/ GatherDone
    \/ TermDone

SpecEndToEnd == InitEndToEnd /\ [][NextEndToEnd]_vars

(* ------------------ a job posted to the /scrape endpoint ---------------- *)
\* get_task_status (server.py 72-98): the answer for a task in queue state
\* `state` whose stored return value is `ret` and whose stored exception is e:
\* 'result' is set in state SUCCESS only, 'error' in state FAILURE only
get_task_status(state, ret, e) ==
    [status |-> state,
     result |-> IF state = "SUCCESS" THEN ret ELSE NoPayload,
     error  |-> IF state = "FAILURE" THEN e.msg ELSE <<>>]

\* create_scrape_task (server.py 52-70): scrape_task.apply_async with
\* args=[actor_id, input_data] and task_id=request.run_id; the run id is the
\* id of the queued task and is not among the arguments of scrape_task, whose
\* run_id parameter keeps its default None
CreateScrapeTask ==
    /\ task = "scrape" /\ pc = "request"
    /\ task_id' = submitted
    /\ run_id' = None
    /\ pc' = "queued"
    /\ UNCHANGED <<task, actor_id, input_data, submitted, browseVars, taskState, exc, result,
                   payload, events, posts, eng, ctx, hist, enrichVars, calls>>

\* a ScrapeRequest (actor_id, input_data, run_id) arrives at the endpoint; a
\* caller may have put a run_id of its own into input_data
InitSubmit ==
    /\ task = "scrape"
    /\ pc = "request"
    /\ actor_id \in ActorIds
    /\ input_data \in Inputs
    /\ submitted \in {"r1", "r2"}
    /\ task_id = None
    /\ run_id = None
    /\ taskState = "PENDING"
    /\ exc = NoExc
    /\ result = NoResult
    /\ payload = NoPayload
    /\ events = <<>>
    /\ posts = <<>>
    /\ eng = NewEngine
    /\ ctx = 0
    /\ hist = NoHist
    /\ calls = 0
    /\ env = AnyEnv
    /\ places = <<>>
    /\ slots = <<>>
    /\ batchStart = 0
    /\ enriched_count = 0
    /\ IdleNav /\ IdleRoute /\ IdleTerm

NextSubmit ==
    \/ CreateScrapeTask
    \/ WorkerStart
    \/ ScrapeEntry
    \/ SendStarted
    \/ Route
    \/ ScrapeOther
    \/ ScrapeConfig
    \/ ScrapeCreateContext
    \/ ScrapeBody
    \/ ScrapeFinally
    \/ WrapperCleanup
    \/ WrapperExcept
    \/ SendSuccess
    \/ ScrapeExcept

SpecSubmit == InitSubmit /\ [][NextSubmit]_vars

(* ============================== claims ================================= *)
TerminalEvents ==
    {i \in 1..Len(events) : events[i].status \in {"success", "error"}}

PostsOf(i) == {j \in 1..Len(posts) : posts[j].emit = i}

\* C1: whatever the actor id, the input configuration and the run id, and
\* whatever routing, the extractor and the emits do, scrape_task returns a
\* payload whose status is 'success' or 'error': no exception reaches the
\* queue (the task never crashes, is never stored as FAILURE, and never
\* stops before it has returned).
C1_DispatchAlwaysCompletes ==
    task = "scrape" =>
        /\ pc # "crashed"
        /\ taskState # "FAILURE"
        /\ (pc = "done" => payload.status \in {"success", "error"})
        /\ (pc # "done" => ENABLED Next)

\* an extractor raised, the 'error' emit timed out, and the task returned
C1_Witness ==
    /\ task = "scrape" /\ pc = "done"
    /\ hist.scrape = "raised"
    /\ payload.status = "error"
    /\ \E j \in 1..Len(posts) :
          posts[j].outcome = "timeout" /\ events[posts[j].emit].status = "error"

\* C2: for a registered actor whose scrape() failed with an exception the
\* returned payload has status 'error' and the last StatusEvent is 'error';
\* a 'success' payload is returned only when scrape() completed.
C2_FailureReportedAsError ==
    (task = "scrape" /\ pc = "done" /\ hist.extractor # None) =>
        /\ hist.scrape = "raised" =>
              /\ payload.status = "error"
              /\ run_id # None => events[Len(events)].status = "error"
        /\ payload.status = "success" => hist.scrape = "returned"

\* C3: an actor id outside the registry never reaches an extractor and never
\* gets a Session (no engine, browser or context), and the task returns status
\* 'error' with a message that names the actor.
C3_UnknownActorRejected ==
    (task = "scrape" /\ actor_id \notin DOMAIN scraper_map) =>
        /\ hist.extractor = None
        /\ eng = NewEngine
        /\ ctx = 0
        /\ pc = "done" =>
              /\ payload.status = "error"
              /\ payload.error = <<"Unknown actor_id: ", actor_id>>

C3_Witness ==
    /\ task = "scrape" /\ pc = "done"
    /\ actor_id \notin DOMAIN scraper_map
    /\ payload.status = "error"

\* C4: the queue-visible state is one of PENDING, STARTED, SUCCESS, FAILURE and
\* changes only PENDING -> STARTED -> SUCCESS | FAILURE; it is STARTED whenever
\* the task is routing or extracting; a terminal state never changes.
C4_MonotonicTaskState ==
    [][ /\ taskState' \in {"PENDING", "STARTED", "SUCCESS", "FAILURE"}
        /\ taskState' # taskState =>
              <<taskState, taskState'>> \in {<<"PENDING", "STARTED">>,
                                             <<"STARTED", "SUCCESS">>,
                                             <<"STARTED", "FAILURE">>}
        /\ pc' \notin {"queued", "entry", "done", "crashed"} => taskState' = "STARTED"
      ]_vars

\* a task went through an extractor and ended in SUCCESS
C4_Witness ==
    /\ task = "scrape" /\ pc = "done"
    /\ hist.extractor # None
    /\ taskState = "SUCCESS"

\* C5: for a task with a correlation id, 'started' is the first emit and is
\* made before the extractor is invoked; no terminal event ('success' or
\* 'error') is emitted while the task runs, and when it has returned exactly
\* one was emitted, as the last emit.
C5_StartedThenOneTerminal ==
    (task = "scrape" /\ run_id # None /\ pc \notin {"queued", "entry"}) =>
        /\ hist.extractor # None =>
              Len(events) >= 1 /\ events[1].status = "started"
        /\ pc = "done" =>
              /\ Cardinality(TerminalEvents) = 1
              /\ Len(events) \in TerminalEvents
        /\ pc # "done" => TerminalEvents = {}

\* started and one terminal event, after an extractor ran
C5_Witness ==
    /\ task = "scrape" /\ pc = "done" /\ run_id # None
    /\ hist.extractor # None
    /\ Len(events) = 2
    /\ events[1].status = "started"
    /\ events[2].status \in {"success", "error"}

\* what scrape_task returns, told from the wrapper's return value and the
\* exception alone
ExpectedScrapePayload ==
    IF result # NoResult
    THEN [status |-> "success", data |-> result, error |-> <<>>, traceback |-> FALSE]
    ELSE [status |-> "error", data |-> NoResult, error |-> exc.msg, traceback |-> TRUE]

\* the tag _enrich_single_place gives for an answer of the collaborator
StatusFor(outcome) ==
    CASE outcome = "data" -> "completed"
      [] outcome = "nothing" -> "no_data"
      [] outcome = "raised" -> "failed"

\* C6: no emit raises to its caller, and what the tasks return does not depend
\* on the deliveries: the payload of scrape_task is the one fixed by the
\* wrapper's return value or the exception, the status of every processed
\* place is the one fixed by the collaborator's answer, and enriched_count is
\* the number of places whose processing did not raise.
C6_DeliveryFailureAbsorbed ==
    /\ pc # "crashed"
    /\ (task = "scrape" /\ pc = "done") => payload = ExpectedScrapePayload
    /\ task = "enrich" =>
          /\ \A i \in DOMAIN places :
                slots[i].pc = "done" =>
                    /\ places[i].enrichmentStatus = StatusFor(slots[i].outcome)
                    /\ slots[i].returned = (slots[i].outcome # "raised")
          /\ (pc = "done" /\ Len(WithWebsites(places)) > 0) =>
                payload.enriched_count =
                    Cardinality({i \in DOMAIN places : slots[i].outcome \in {"data", "nothing"}})

\* an enrich-update timed out and the place is 'completed' and counted
C6_Witness ==
    /\ task = "enrich" /\ pc = "done"
    /\ \E j \in 1..Len(posts) :
          /\ posts[j].outcome = "timeout"
          /\ events[posts[j].emit].place.enrichmentStatus = "completed"
    /\ payload.enriched_count >= 1

\* C7: every emit makes at most one POST to the sink, whatever its outcome.
C7_AtMostOneAttempt ==
    /\ \A i \in 1..Len(events) : Cardinality(PostsOf(i)) <= 1
    /\ \A j \in 1..Len(posts) : posts[j].emit \in 1..Len(events)

\* a delivery failed and the task went on to its end without another POST
C7_Witness ==
    /\ pc = "done"
    /\ \E j \in 1..Len(posts) : posts[j].outcome # "ok200"

\* C8: when scrape_task has returned, every engine the task started is
\* stopped, every browser it launched is closed and no context is open.
C8_SessionClosedOnReturn ==
    (task = "scrape" /\ pc = "done") =>
        /\ eng.enginesStopped = 1..eng.enginesStarted
        /\ eng.browsersClosed = 1..eng.browsersLaunched
        /\ \A c \in 1..eng.ctxCreated : ~IsOpenCtx(eng, c)

LogIndex(kind) == {i \in 1..Len(eng.cleanupLog) : eng.cleanupLog[i][1] = kind}

C10_InitializeIdempotent ==
    task = "api" =>
        /\ eng.enginesStarted <= 1
        /\ eng.browsersLaunched <= 1
        /\ eng.browser # 0 => eng.enginesStarted = 1 /\ eng.browsersLaunched = 1

\* a navigation attempt that failed: goto raised, timed out, gave no response
\* or gave a response with a status of 400 or more
FailedGoto(o) ==
    \/ o.kind \in {"raises", "timeout", "none"}
    \/ o.kind = "response" /\ o.status >= 400

\* C11: navigate_with_retry never raises and never makes more than max_retries
\* attempts; when every attempt failed it has made exactly max_retries
\* attempts and returns False; it returns True only if an attempt yielded a
\* response with a status below 400.
C11_RetryExhaustsWithoutRaising ==
    task = "navigate" =>
        /\ pc # "nav_raised"
        /\ Len(navLog) <= max_retries
        /\ pc = "nav_done" =>
              /\ navRet \in {"True", "False"}
              /\ (\A i \in 1..Len(navLog) : FailedGoto(navLog[i].goto)) =>
                    Len(navLog) = max_retries /\ navRet = "False"
              /\ navRet = "True" =>
                    \E i \in 1..Len(navLog) :
                        /\ navLog[i].goto.kind = "response"
                        /\ navLog[i].goto.status < 400

\* three attempts failed in three different ways and False was returned
C11_Witness ==
    /\ task = "navigate" /\ pc = "nav_done"
    /\ max_retries = 3 /\ Len(navLog) = 3
    /\ navLog[1].goto.kind = "timeout"
    /\ navLog[2].goto.kind = "none"
    /\ navLog[3].goto.kind = "response" /\ navLog[3].goto.status >= 400
    /\ navRet = "False"

\* the exponential sleeps taken after the first k attempts, in order
BackoffsAfter(k) ==
    IF k = 0 THEN <<>>
    ELSE LET F[i \in 1..k] == IF i = 1 THEN navLog[1].backoff
                              ELSE F[i - 1] \o navLog[i].backoff
         IN F[k]

\* C12: with max_retries = 3, when attempts 1 and 2 failed and attempt 3
\* succeeded, True is returned after exactly 3 attempts and the backoff sleeps
\* before the last attempt were 1 s then 2 s.
C12_TwoFailuresThenSuccess ==
    (/\ task = "navigate" /\ pc = "nav_done" /\ max_retries = 3
     /\ Len(navLog) >= 2
     /\ FailedGoto(navLog[1].goto) /\ FailedGoto(navLog[2].goto)
     /\ Len(navLog) >= 3 => ~FailedGoto(navLog[3].goto)) =>
        /\ Len(navLog) = 3
        /\ navRet = "True"
        /\ BackoffsAfter(2) = <<1, 2>>

\* C13: every failed attempt that is followed by another attempt is followed
\* by a sleep of 2^attempt seconds, attempt counted from 0.
C13_BackoffAfterEveryFailure ==
    task = "navigate" =>
        \A i \in 1..Len(navLog) :
            (FailedGoto(navLog[i].goto) /\ i < Len(navLog)) =>
                navLog[i].backoff = <<2 ^ navLog[i].attempt>>

\* the decision table of the policy: each row aborts, so a request is aborted
\* exactly when some row applies to it
ReferenceDecision(req, f) ==
    LET image == req.resource_type = "image"
        font == req.resource_type = "font" \/ HasFontExtension(UrlOf(req))
        stylesheet == req.resource_type = "stylesheet"
        tracking == OnTrackingDomain(UrlOf(req))
    IN IF \/ image /\ (f.ultra_fast \/ f.block_media)
          \/ font /\ (f.ultra_fast \/ f.block_fonts)
          \/ stylesheet /\ f.ultra_fast
          \/ tracking
       THEN "abort" ELSE "continue"

\* C14: for every request decided by the installed handler and every flag
\* combination the decision is the one of the table: abort image if ultra_fast
\* or block_media; else abort font (by type or extension) if ultra_fast or
\* block_fonts; else abort stylesheet if ultra_fast; else abort a request to a
\* tracking domain; else allow.
C14_DecisionTable ==
    (task = "route" /\ routed /\ request # NoRequest) =>
        decision = ReferenceDecision(request, flags)

\* a stylesheet was let through a media-blocking context
C14_Witness ==
    /\ task = "route" /\ routed /\ request # NoRequest
    /\ request.resource_type = "stylesheet"
    /\ flags.block_media /\ ~flags.ultra_fast
    /\ decision = "continue"

\* C15: a request to a known analytics/tracking domain issued from a context
\* is aborted under every combination of the three flags.
C15_TrackingAlwaysAborted ==
    (task = "route" /\ request # NoRequest /\ OnTrackingDomain(UrlOf(request))) =>
        decision = "abort"

\* the identifiers the discovery of the term reads, in reading order: for
\* Amazon the product containers of page 1, its /dp/ links, then the product
\* containers of the later pages (fewer than 5 identifiers are found per page,
\* so the alternate selector is always consulted on page 1); for Maps the links
\* of the successive search attempts
RECURSIVE Encounters(_)
Encounters(fd) ==
    IF fd = <<>> THEN <<>>
    ELSE LET last == fd[Len(fd)]
             front == Encounters(SubSeq(fd, 1, Len(fd) - 1))
         IN IF scraper = "amazon"
            THEN front \o last.primary \o (IF Len(fd) = 1 THEN last.alt ELSE <<>>)
            ELSE front \o last

\* index of the first occurrence of x in seq
FirstIndex(x, seq) == CHOOSE i \in 1..Len(seq) : seq[i] = x /\ \A j \in 1..(i - 1) : seq[j] # x

\* C19: every identifier of the discovered sequence was encountered, occurs
\* exactly once, and the identifiers stand in the order of their first
\* occurrences, however often they were encountered (same page, later page,
\* alternate selector, repeated search attempt).
C19_DedupFirstSeen ==
    (task = "discover" /\ pc = "batches") =>
        LET seen == Encounters(feed)
        IN /\ \A i \in 1..Len(discovered) : IsIn(discovered[i], seen)
           /\ \A i, j \in 1..Len(discovered) : i # j => discovered[i] # discovered[j]
           /\ \A i, j \in 1..Len(discovered) :
                 i < j => FirstIndex(discovered[i], seen) < FirstIndex(discovered[j], seen)

\* the targets of the batches issued so far, in the order of issue
RECURSIVE Flatten(_)
Flatten(batches) ==
    IF batches = <<>> THEN <<>>
    ELSE Flatten(SubSeq(batches, 1, Len(batches) - 1)) \o batches[Len(batches)]

CeilDiv(n, b) == (n + b - 1) \div b

\* C16: for the N targets of a term and batch size 3 the scheduler issues
\* ceil(N/3) batches, every batch holds between 1 and 3 targets, and every
\* target is in exactly one batch (the batches, in order, make up the sequence
\* of targets).
C16_BatchPartition ==
    (task = "term" /\ pc # "search") =>
        /\ \A b \in 1..Len(launches) : Len(launches[b]) \in 1..batch_size
        /\ Len(Flatten(launches)) <= Len(discovered)
        /\ Flatten(launches) = SubSeq(discovered, 1, Len(Flatten(launches)))
        /\ pc = "term_done" =>
              /\ Len(launches) = CeilDiv(Len(discovered), batch_size)
              /\ Flatten(launches) = discovered

\* four targets went out as a batch of three and a batch of one
C16_Witness ==
    /\ task = "term" /\ pc = "term_done"
    /\ Len(discovered) = 4
    /\ Len(launches) = 2
    /\ Len(launches[1]) = 3 /\ Len(launches[2]) = 1

\* the batch of the target at position k, counted from 0
BatchNo(k) == (k - 1) \div batch_size

\* C17: an extraction of a batch has started only if every extraction of
\* every earlier batch has resolved, by value or by exception, whatever the
\* order in which the extractions of a batch start and resolve.
C17_BatchesSequential ==
    task = "term" =>
        \A k \in DOMAIN ext : \A j \in DOMAIN ext :
            (ext[k].pc # "pending" /\ BatchNo(j) < BatchNo(k)) => ext[j].pc = "done"

\* an extraction of the second batch runs after the first batch resolved with
\* a failure and a success
C17_Witness ==
    /\ task = "term" /\ Len(ext) >= 4
    /\ ext[4].pc = "running"
    /\ ext[1].pc = "done" /\ ext[1].outcome.kind = "exception"
    /\ ext[2].pc = "done" /\ ext[2].outcome.kind = "dict"

\* the extraction of the target ended by an exception
ExtractionRaised(r) == r.kind \in {"exception", "none"} \/ "error" \in r.keys

\* C18: when the batches of a term are over every target was extracted; for a
\* target whose extraction raised, the output holds an error-tagged record of
\* it; the record of every other target is in the output unless a job-level
\* filter dropped it.
C18_FailureIsolated ==
    (task = "term" /\ pc = "term_done") =>
        \A k \in DOMAIN ext :
            /\ ext[k].pc = "done"
            /\ ExtractionRaised(ext[k].outcome) =>
                  \E i \in 1..Len(all_results) :
                      /\ all_results[i].target = discovered[k]
                      /\ "error" \in all_results[i].keys
            /\ (~ExtractionRaised(ext[k].outcome) /\ Kept(ext[k].outcome, filters)) =>
                  IsIn(IF scraper = "amazon" THEN Tagged(ext[k].outcome, term)
                       ELSE ext[k].outcome, all_results)

\* the targets whose detail extraction was launched
Launched == {discovered[k] : k \in {j \in DOMAIN ext : ext[j].pc # "pending"}}

\* C20: no filter is evaluated during discovery; a filter is evaluated only
\* on a dict returned by a resolved detail extraction; the discovered sequence
\* is the one fixed by what the site shows and max_results, and detail
\* extraction is launched for every discovered target, whatever the values of
\* min_rating and max_price.
C20_FiltersAfterExtraction ==
    task = "term" =>
        /\ pc = "search" => filterLog = <<>>
        /\ \A i \in 1..Len(filterLog) :
              \E k \in DOMAIN ext :
                  /\ ext[k].pc = "done"
                  /\ ext[k].outcome = filterLog[i]
                  /\ filterLog[i].kind = "dict"
        /\ (pc # "search" /\ scraper = "amazon") =>
              discovered = _search_products(feed, max_results)
        /\ pc = "term_done" =>
              Launched = {discovered[k] : k \in 1..Len(discovered)}

\* with min_rating = 4 a record of the first batch was dropped and the fourth
\* target was extracted all the same
C20_Witness ==
    /\ task = "term" /\ pc = "term_done"
    /\ scraper = "amazon" /\ filters.min_rating = 4
    /\ Len(discovered) = 4
    /\ Len(filterLog) > Len(all_results)
    /\ ext[4].outcome.kind = "dict"

\* the "Extracting details: processed/total" reports issued so far
ExtractingReports == SelectSeq(progress, LAMBDA r : r.kind = "extracting")

\* C21: a report that counts targets as processed is in the log only when the
\* detail extraction of every one of these targets has resolved; one such
\* report was issued per batch; and when the batches of the term are over the
\* last report is the one of the term.
C21_ProgressAfterBatchResolved ==
    task = "term" =>
        /\ \A i \in 1..Len(ExtractingReports) :
              \A k \in 1..ExtractingReports[i].processed : ext[k].pc = "done"
        /\ Len(ExtractingReports) = Len(launches)
        /\ pc = "term_done" =>
              /\ progress # <<>>
              /\ progress[Len(progress)].kind = "completed"

\* the position of the target in the discovered sequence
PositionOf(t) == CHOOSE k \in 1..Len(discovered) : discovered[k] = t

\* C22: every record of the output carries the search term under which its
\* target was discovered, and the records of the term are in the order of
\* discovery of their targets, whatever the order in which the extractions of
\* a batch resolved.
C22_TaggedInDiscoveryOrder ==
    task = "term" =>
        /\ \A i \in 1..Len(all_results) :
              /\ "searchKeyword" \in all_results[i].keys
              /\ all_results[i].searchKeyword = term
        /\ \A i, j \in 1..Len(all_results) :
              i < j => PositionOf(all_results[i].target) < PositionOf(all_results[j].target)

\* the sizes of the batches issued so far
BatchSizes == [b \in 1..Len(launches) |-> Len(launches[b])]

\* the keyword "x" with max_results = 6 on a site that shows 8 products on
\* two pages
EndToEndScenario ==
    /\ task = "term" /\ scraper = "amazon" /\ term = "x" /\ max_results = 6
    /\ \E k \in 1..7 : feed = TwoPages(k)

\* C23 as stated: when the keyword is done, three batches of 3, 3 and 2
\* targets were issued, and the output has at most 6 records, each tagged "x".
C23_ThreeBatches ==
    (EndToEndScenario /\ pc = "term_done") =>
        /\ BatchSizes = <<3, 3, 2>>
        /\ Len(all_results) <= 6
        /\ \A i \in 1..Len(all_results) : all_results[i].searchKeyword = "x"

\* C23 amended: max_results cuts the discovered targets to the first 6 before
\* the batches are formed, so two batches of 3 and 3 targets are issued (never
\* a third), over the six products shown first; the output has at most 6
\* records, each tagged "x".
C23_TwoBatches ==
    EndToEndScenario =>
        /\ Len(launches) <= 2
        /\ pc # "search" => discovered = Listed(1, 6)
        /\ pc = "term_done" =>
              /\ BatchSizes = <<3, 3>>
              /\ Len(all_results) <= 6
              /\ \A i \in 1..Len(all_results) : all_results[i].searchKeyword = "x"

\* the keyword is done after two batches and all six products are in the output
C23_Witness ==
    /\ EndToEndScenario /\ pc = "term_done"
    /\ BatchSizes = <<3, 3>>
    /\ Len(all_results) = 6

\* C24: when enrich_websites_task is done, every place with a website has one
\* of the three statuses: 'completed' exactly when enrich_from_website returned
\* non-empty data, 'no_data' exactly when it returned nothing, 'failed'
\* exactly when processing the place raised; a place without a website has none.
C24_StatusPerOutcome ==
    (task = "enrich" /\ pc = "done") =>
        \A i \in DOMAIN places :
            IF places[i].website = "url"
            THEN /\ slots[i].pc = "done"
                 /\ places[i].enrichmentStatus \in {"completed", "no_data", "failed"}
                 /\ places[i].enrichmentStatus = "completed" <=>
                       (slots[i].outcome # "raised" /\ slots[i].answer.truthy)
                 /\ places[i].enrichmentStatus = "no_data" <=>
                       (slots[i].outcome # "raised" /\ ~slots[i].answer.truthy)
                 /\ places[i].enrichmentStatus = "failed" <=> slots[i].outcome = "raised"
            ELSE places[i].enrichmentStatus = None

\* the task is done with a place for which the service returned nothing and a
\* place whose processing raised
C24_Witness ==
    /\ task = "enrich" /\ pc = "done"
    /\ \E i, j \in DOMAIN places :
          /\ places[i].enrichmentStatus = "no_data"
          /\ places[j].enrichmentStatus = "failed"

\* the enrich-update emits made so far
EnrichUpdates == SelectSeq(events, LAMBDA e : e.path = "enrich-update")

\* C25: at every moment the enrich-update events are as many as the places
\* whose processing is over (tagged completed, no_data or failed), so each
\* such place has its one event before its batch is aggregated and before the
\* next batch begins; and each event carries a tagged place.
C25_OneUpdatePerTaggedPlace ==
    task = "enrich" =>
        /\ Len(EnrichUpdates) = Cardinality({i \in DOMAIN slots : slots[i].pc = "done"})
        /\ \A j \in 1..Len(EnrichUpdates) :
              EnrichUpdates[j].place.enrichmentStatus \in {"completed", "no_data", "failed"}

\* C26: when the enrichment data is merged into a place, every platform of the
\* data's socialMedia is in the place's socialMedia with the enriched value,
\* and every platform the place had that the data does not have keeps its value.
C26_SocialMergeOverwrites ==
    [][\A i \in DOMAIN places :
          (task = "enrich" /\ slots[i].pc = "enriching" /\ slots'[i].pc = "sending"
            /\ slots'[i].answer.truthy) =>
              LET old == places[i].socialMedia
                  new == places'[i].socialMedia
                  data == slots'[i].answer.social
              IN /\ \A p \in data : p \in DOMAIN new /\ new[p] = "enriched"
                 /\ \A p \in DOMAIN old \ data : p \in DOMAIN new /\ new[p] = old[p]
                 /\ DOMAIN new = DOMAIN old \cup data]_vars

\* a place whose facebook link was overwritten by the enriched one, and a
\* place that kept its facebook link and gained the enriched twitter link
C26_Witness ==
    /\ task = "enrich"
    /\ \E i, j \in DOMAIN places :
          /\ slots[i].answer.social = {"facebook"}
          /\ places[i].socialMedia = [p \in {"facebook"} |-> "enriched"]
          /\ slots[j].answer.social = {"twitter"}
          /\ places[j].socialMedia =
                [p \in {"facebook", "twitter"} |-> IF p = "facebook" THEN "existing" ELSE "enriched"]

\* the places whose enrichment has started and has not resolved
InFlight == {i \in DOMAIN slots : slots[i].pc \in {"enriching", "sending"}}

\* the number (from 0) of the batch of the place, by its position in
\* places_with_websites
EnrichBatchNo(i) ==
    LET w == WithWebsites(places)
    IN ((CHOOSE j \in 1..Len(w) : w[j] = i) - 1) \div EnrichBatchSize

\* C30: the enrichments run in consecutive batches of at most 5: at no time
\* are more than 5 in flight, the ones in flight are of one batch, and when an
\* enrichment of a batch has started every enrichment of the batches before
\* it has resolved.
C30_EnrichBatchesSequential ==
    task = "enrich" =>
        /\ Cardinality(InFlight) <= 5
        /\ \A i, j \in InFlight : EnrichBatchNo(i) = EnrichBatchNo(j)
        /\ \A i, j \in DOMAIN slots :
              (places[i].website = "url" /\ places[j].website = "url"
                /\ slots[i].pc # "idle" /\ EnrichBatchNo(j) < EnrichBatchNo(i)) =>
                  slots[j].pc = "done"

\* five enrichments were in flight together and have resolved, and the sixth
\* is in flight
C30_Witness ==
    /\ task = "enrich"
    /\ Len(places) >= 6
    /\ \A i \in 1..5 : slots[i].pc = "done"
    /\ slots[6].pc = "enriching"
    /\ \E i \in 1..5 : slots[i].outcome = "raised"

\* a scrape_task whose extractor reads its search terms from the input and
\* whose input has none
RequiredInputMissing ==
    /\ task = "scrape"
    /\ hist.extractor \in InSrc \ {"scrape_google_business"}
    /\ input_data.terms = "missing"

\* C27: a scrape_task whose required input is missing never starts an
\* automation engine, launches a browser or creates a context, and ends
\* failed, reporting the configuration error.
C27_ConfigErrorBeforeResources ==
    RequiredInputMissing =>
        /\ eng.enginesStarted = 0 /\ eng.browsersLaunched = 0 /\ eng.ctxCreated = 0
        /\ pc = "done" =>
              /\ taskState = "FAILURE"
              /\ payload.status = "error"

\* the page loads of the target's own page
DetailLoads == SelectSeq(loadLog, LAMBDA l : l.url = "detail")

\* the extraction gave no record of the target: it returned None, returned the
\* error-tagged dict, or raised
TargetSkipped == ext[1].outcome.kind \in {"none", "exception"} \/ "error" \in ext[1].outcome.keys

\* C28: when the extraction of a target is over, every load of its page that
\* timed out, raised or gave a bad status was followed by the exponential
\* sleep and another load, unless it was the third; the target is skipped
\* because of its page load only when three loads have failed; and a record
\* of the target is built only from a page that loaded.
C28_LoadRetriedBeforeSkip ==
    (task = "extract" /\ pc = "extract_done") =>
        /\ Len(DetailLoads) <= 3
        /\ \A i \in 1..Len(DetailLoads) :
              (FailedGoto(DetailLoads[i].goto) /\ i < 3) =>
                  /\ i < Len(DetailLoads)
                  /\ DetailLoads[i].backoff = <<2 ^ (i - 1)>>
        /\ (DetailLoads # <<>> /\ FailedGoto(DetailLoads[Len(DetailLoads)].goto)) =>
              TargetSkipped

\* C29: the discovery of a term ends, whatever the site shows.  Amazon visits
\* at most 20 result pages, and every page but the last visited gave a new
\* target and left the count below max_results; Maps makes at most 3 search
\* attempts, each but the last leaving the count below max_results; and at
\* most max_results targets are handed to detail extraction.
C29_DiscoveryBounded ==
    task = "discover" =>
        /\ pc = "batches" =>
              /\ Len(discovered) <= max_results
              /\ Len(ext) = Len(discovered)
              /\ \A i \in 1..(Len(visits) - 1) : visits[i].total < max_results
              /\ scraper = "amazon" =>
                    /\ Len(visits) <= 20
                    /\ \A i \in 1..(Len(visits) - 1) : visits[i].found > 0
              /\ scraper = "maps" => Len(visits) <= 3

\* a site with 21 result pages of new products: the search stopped after 20
C29_Witness ==
    /\ task = "discover" /\ pc = "batches"
    /\ scraper = "amazon"
    /\ Len(feed) = 21
    /\ Len(visits) = 20
    /\ Len(discovered) = 20

(* ---- C31: never more than batch_size Pages open in the context ---- *)
\* the detail extractions of the batch that starts at i
BatchPages(i) == IF i \in 0..(Len(discovered) - 1) THEN BatchPositions(i) ELSE {}

\* C31: at every moment of a search term at most batch_size (3) Pages are
\* open in the context, and the open Pages are pages of detail extractions of
\* the current batch: the page of the search was closed before the first
\* extraction opened its page, and every page of the batches before was
\* closed, whether its extraction returned a record, returned nothing or raised
C31_OpenPagesBounded ==
    task = "term" =>
        /\ Cardinality(pages) <= batch_size
        /\ pages \subseteq (IF pc = "gather" THEN BatchPages(batchI) ELSE {})
        /\ \A k \in DOMAIN ext : (k \in pages) <=> (ext[k].pc = "running")

\* an extraction of the second batch holds the only open Page, after a first
\* batch of three in which one extraction raised and one returned a record
C31_Witness ==
    /\ task = "term" /\ pc = "gather" /\ batchI = batch_size
    /\ pages = {batch_size + 1}
    /\ \E k \in 1..batch_size : ext[k].outcome.kind = "exception"
    /\ \E k \in 1..batch_size : ext[k].outcome.kind = "dict"

(* ---- C32: the stack trace goes to the queue, never to the sink ---- *)
\* the value is a stack trace (the output of traceback.format_exc())
IsTrace(x) == Len(x) >= 1 /\ x[1] = "Traceback (most recent call last):"

\* C32: an 'error' StatusEvent carries the status and the message str(e) of
\* the exception and nothing else (no result); no StatusEvent of any status
\* carries a stack trace in its error or in its result; the payload returned
\* to the queue for a failed task is the one that has the traceback
C32_TraceOnlyInPayload ==
    task = "scrape" =>
        /\ \A i \in DOMAIN events :
              /\ ~IsTrace(events[i].error)
              /\ ~IsTrace(events[i].result.error)
              /\ events[i].status = "error" =>
                    /\ events[i].error = exc.msg
                    /\ events[i].result = NoResult
        /\ (pc = "done" /\ payload.status = "error") =>
              /\ payload.traceback = TRUE
              /\ payload.error = exc.msg
        /\ (pc = "done" /\ payload.status # "error") => payload.traceback = FALSE

\* a task with a correlation id failed: the 'error' event was sent and the
\* payload with the traceback was returned
C32_Witness ==
    /\ task = "scrape" /\ pc = "done" /\ payload.status = "error"
    /\ payload.traceback = TRUE
    /\ \E i \in DOMAIN events : events[i].status = "error" /\ events[i].error = payload.error

(* ---- C33: a submitted job reports to the correlation id it was given ---- *)
\* C33: for a job submitted with correlation id r, when the task has ended
\* the dispatcher has run with run id r, and a 'started' StatusEvent and a
\* terminal ('success' or 'error') StatusEvent addressed to r were emitted
C33_SubmittedRunReportsToItsId ==
    (task = "scrape" /\ submitted # None /\ pc \in {"done", "crashed"}) =>
        /\ run_id = submitted
        /\ \E i \in DOMAIN events : events[i].status = "started" /\ events[i].run = submitted
        /\ \E i \in TerminalEvents : events[i].run = submitted

(* ---- C34: every created context is in the teardown registry ---- *)
\* C34: between the calls of the client, every Context the Session created
\* from a browser is in self.contexts, also when the create_context call that
\* created it raised afterwards (context.route or add_init_script failed)
C34_EveryContextRegistered ==
    task = "api" => \A c \in 1..eng.ctxCreated : IsIn(c, eng.contexts)

(* ---- C35: a failed extraction ends in SUCCESS with an 'error' payload ---- *)
\* the task has ended and its extractor's scrape() had raised
ExtractionFailed == task = "scrape" /\ pc \in {"done", "crashed"} /\ hist.scrape = "raised"

\* C35: the dispatcher never lets a task end in queue state FAILURE; a task
\* whose extraction failed ends in state SUCCESS with a payload of status
\* 'error', which get_task_status returns under 'result', with no 'error'
C35_FailureInsideResult ==
    /\ task = "scrape" => taskState # "FAILURE"
    /\ ExtractionFailed =>
          /\ taskState = "SUCCESS"
          /\ payload.status = "error"
          /\ get_task_status(taskState, payload, exc).result = payload
          /\ get_task_status(taskState, payload, exc).error = <<>>

(* ---- C36: close is invoked exactly once on every context ---- *)
\* the number of close() invocations made on context c so far
CloseCalls(c) == Len(SelectSeq(eng.closeCalls, LAMBDA x : x = c))

\* C36: over the run of a task close() is never invoked a second time on a
\* Context (cleanup skips a Context the extractor's finally clause has closed),
\* and when the task has ended it was invoked exactly once on every Context
\* the Session created
C36_ContextClosedExactlyOnce ==
    task = "scrape" =>
        /\ \A c \in 1..eng.ctxCreated : CloseCalls(c) <= 1
        /\ pc = "done" => \A c \in 1..eng.ctxCreated : CloseCalls(c) = 1

(* ---- C37: enriched_count counts the completed enrichments ---- *)
\* the website-bearing records whose enrichment status is `status`
PlacesTagged(status) ==
    {i \in DOMAIN places : places[i].website = "url" /\ places[i].enrichmentStatus = status}

\* C37: the enriched_count the enrichment task returns is the number of
\* website-bearing records tagged 'completed' (those tagged 'no_data' or
\* 'failed' are not counted) and is at most total_places
C37_CountsCompleted ==
    (task = "enrich" /\ pc = "done") =>
        /\ payload.enriched_count = Cardinality(PlacesTagged("completed"))
        /\ "total_places" \in DOMAIN payload => payload.enriched_count <= payload.total_places

(* ---- C38: records without a website are left alone ---- *)
\* the input records that have no website or a website that is no string
WithoutWebsite == {i \in DOMAIN places : places[i].website # "url"}

\* C38: at every moment of the enrichment task a record without a (string)
\* website is as it was handed in (no enrichment status, no merged field, no
\* social link), the collaborator was not called for it and no StatusEvent
\* carries it; when no record has a website the task returns success with
\* enriched_count 0, and neither the collaborator nor the sink was called
C38_NoWebsiteUntouched ==
    task = "enrich" =>
        /\ \A i \in WithoutWebsite :
              /\ places[i] = Place(places[i].website, NoSocial)
              /\ slots[i] = NoSlot
        /\ \A j \in DOMAIN events : events[j].place.website = "url"
        /\ (pc = "done" /\ WithoutWebsite = DOMAIN places) =>
              /\ payload.status = "success" /\ payload.enriched_count = 0
              /\ \A i \in DOMAIN slots : slots[i] = NoSlot
              /\ events = <<>> /\ posts = <<>>

\* the task has ended over one record without a string website, untouched,
\* and one record with a website that was enriched and reported
C38_Witness ==
    /\ task = "enrich" /\ pc = "done"
    /\ \E i \in WithoutWebsite : places[i].website = "nonstring"
    /\ \E i \in DOMAIN places : places[i].enrichmentStatus = "completed"
    /\ events # <<>>

(* ---- C39: the Apollo extractor returns the extracted profiles ---- *)
\* the context of the run was created and closed without an exception (these
\* are the page operations the run has got to)
PageOperationsSucceeded == ctx # 0 /\ IsIn(ctx, eng.contexts) /\ ctx \in eng.ctxClosed

\* C39: a task for actor 'apollo' with at least one search term, in which no
\* page operation fails, ends with scrape() returned and a payload of status
\* 'success' that holds the list of extracted profile records
C39_ApolloReturnsProfiles ==
    (/\ task = "scrape" /\ pc = "done"
     /\ actor_id = "apollo" /\ input_data.terms = "ok"
     /\ PageOperationsSucceeded) =>
        /\ hist.scrape = "returned"
        /\ payload.status = "success"
        /\ payload.data.kind = "list"

(* ---- C40: which records the Amazon filters keep ---- *)
\* the rule of the claim: min_rating is no filter or the rating (0 when the
\* record has none) reaches it, and max_price is no filter (unset or 0) or
\* the record has a price that does not exceed it
KeepRule(r, f) ==
    /\ f.min_rating <= 0 \/ (IF "rating" \in r.keys THEN r.rating ELSE 0) >= f.min_rating
    /\ f.max_price = 0 \/ ("price" \in r.keys /\ r.price <= f.max_price)

\* a filter is set in the configuration
FilterSet(f) == f.min_rating > 0 \/ f.max_price # 0

\* the record returned by a detail extraction is in the output of scrape()
Returned(r) == IsIn(Tagged(r, term), all_results)

\* C40 as stated: every record detail extraction returned is kept exactly
\* when it satisfies the rule; every error-tagged record has neither rating
\* nor price, is dropped when a filter is set and is returned otherwise
C40_ErrorRecordsAlwaysDropped ==
    (task = "term" /\ scraper = "amazon") =>
        \A j \in DOMAIN filterLog :
            /\ Returned(filterLog[j]) <=> KeepRule(filterLog[j], filters)
            /\ "error" \in filterLog[j].keys =>
                  /\ filterLog[j].keys \cap {"rating", "price"} = {}
                  /\ Returned(filterLog[j]) <=> ~FilterSet(filters)

\* C40 amended: every record detail extraction returned is kept exactly when
\* it satisfies the rule; an error-tagged record that has neither rating nor
\* price is dropped when a filter is set and is returned otherwise
C40_FilterRule ==
    (task = "term" /\ scraper = "amazon") =>
        \A j \in DOMAIN filterLog :
            /\ Returned(filterLog[j]) <=> KeepRule(filterLog[j], filters)
            /\ ("error" \in filterLog[j].keys
                    /\ filterLog[j].keys \cap {"rating", "price"} = {}) =>
                  (Returned(filterLog[j]) <=> ~FilterSet(filters))

\* under a price filter the term ended with an error-tagged record without
\* rating and price dropped, an error-tagged record with both returned and a
\* record over the price dropped
C40_Witness ==
    /\ task = "term" /\ scraper = "amazon" /\ pc = "term_done"
    /\ filters.min_rating = 0 /\ filters.max_price # 0
    /\ \E j \in DOMAIN filterLog :
          /\ filterLog[j].keys = {"error"}
          /\ ~Returned(filterLog[j])
    /\ \E j \in DOMAIN filterLog :
          /\ filterLog[j].keys = {"rating", "price", "error"}
          /\ Returned(filterLog[j])
    /\ \E j \in DOMAIN filterLog :
          /\ "error" \notin filterLog[j].keys
          /\ filterLog[j].price > filters.max_price
          /\ ~Returned(filterLog[j])

====
